---- MODULE Spec2Model ----
(***************************************************************************)
(* ZPEBOP: zero-point energies from Mulliken bond orders.                  *)
(*                                                                         *)
(* The model covers the unified calculator (src/zpebop/core.py), the two   *)
(* energy engines (src/zpebop/models/zpebop1.py, zpebop2.py), the          *)
(* parameter tables (src/zpebop/constants.py) and the output parser        *)
(* (src/zpebop/parser.py).                                                 *)
(*                                                                         *)
(* Numbers.  A float64 is modelled as an exact rational <<n, d>> in lowest *)
(* terms with d > 0, or as one of the IEEE special values: <<0, 0>> is     *)
(* NaN, <<1, 0>> is +Inf and <<-1, 0>> is -Inf.  Rounding error is not     *)
(* modelled; the special values follow IEEE 754 (x/0, 0/0, Inf*0, ...).    *)
(* The parameter tables are carried at a resolution of 1 kcal/mol (1 amu,  *)
(* 1 Angstrom, ...): every entry is rounded to the nearest integer, a      *)
(* non-zero entry stays non-zero with its sign, an undefined entry is nan. *)
(***************************************************************************)
EXTENDS Integers, Sequences, FiniteSets, TLC

(***************************************************************************)
(* float64 arithmetic                                                      *)
(***************************************************************************)
NaN == <<0, 0>>

PInf == <<1, 0>>

NInf == <<-1, 0>>

Zero == <<0, 1>>

One == <<1, 1>>

IAbs(x) == IF x < 0 THEN -x ELSE x

ISign(x) == IF x > 0 THEN 1 ELSE IF x < 0 THEN -1 ELSE 0

RECURSIVE Gcd(_, _)
Gcd(a, b) == IF b = 0 THEN a ELSE Gcd(b, a % b)

\* the rational n/d (d # 0) in lowest terms with a positive denominator
Rat(n, d) ==
  LET g == Gcd(IAbs(n), IAbs(d))
      s == IF d < 0 THEN -1 ELSE 1
  IN  <<s * (n \div g), s * (d \div g)>>

Int2Num(n) == <<n, 1>>

IsNaN(x) == x = NaN

IsInf(x) == x[2] = 0 /\ x[1] # 0

IsFinite(x) == x[2] # 0

Sgn(x) == ISign(x[1])

Neg(x) == <<-x[1], x[2]>>

FAbs(x) == <<IAbs(x[1]), x[2]>>

FAdd(x, y) ==
  IF IsNaN(x) \/ IsNaN(y) THEN NaN
  ELSE IF IsInf(x) /\ IsInf(y) THEN (IF x = y THEN x ELSE NaN)
  ELSE IF IsInf(x) THEN x
  ELSE IF IsInf(y) THEN y
  ELSE LET g == Gcd(x[2], y[2])
       IN  Rat(x[1] * (y[2] \div g) + y[1] * (x[2] \div g), (x[2] \div g) * y[2])

FSub(x, y) == FAdd(x, Neg(y))

FMul(x, y) ==
  IF IsNaN(x) \/ IsNaN(y) THEN NaN
  ELSE IF IsInf(x) \/ IsInf(y)
       THEN (IF Sgn(x) * Sgn(y) = 0 THEN NaN ELSE <<Sgn(x) * Sgn(y), 0>>)
  ELSE LET g1 == Gcd(IAbs(x[1]), y[2])
           g2 == Gcd(IAbs(y[1]), x[2])
       IN  Rat((x[1] \div g1) * (y[1] \div g2), (x[2] \div g2) * (y[2] \div g1))

FDiv(x, y) ==
  IF IsNaN(x) \/ IsNaN(y) THEN NaN
  ELSE IF IsInf(x) THEN (IF IsInf(y) THEN NaN
                         ELSE IF Sgn(y) < 0 THEN Neg(x) ELSE x)
  ELSE IF IsInf(y) THEN Zero
  ELSE IF y[1] = 0 THEN <<Sgn(x), 0>>
  ELSE FMul(x, Rat(y[2], y[1]))

\* x < y and x >= y as float comparisons: false when either side is NaN
FLt(x, y) ==
  /\ ~IsNaN(x) /\ ~IsNaN(y)
  /\ x # y
  /\ IF IsInf(x) THEN Sgn(x) < 0
     ELSE IF IsInf(y) THEN Sgn(y) > 0
     ELSE x[1] * y[2] < y[1] * x[2]

FGe(x, y) == ~IsNaN(x) /\ ~IsNaN(y) /\ ~FLt(x, y)

Square(x) == FMul(x, x)

(***************************************************************************)
(* bounds of the model                                                     *)
(***************************************************************************)
MaxAtoms == 3

\* a distance beyond which every short-range term has underflowed
Far == 1000

\* exp saturates at 2^MaxExp2 and 2^-MaxExp2
MaxExp2 == 3

\* resolution of sqrt on non-squares
SqrtScale == 10

\* nan = np.nan, the undefined entry of a parameter table
nan == -999999

\* the largest number of atoms of a printed bond-order matrix
MatrixAtoms == 7

BETA_V1_BOND ==
  <<
    <<8, nan, 3, 5, 6, 7, 8, 11, 14, nan, 5, 6, 6, 6, 7, 8, 8, nan>>,
    <<nan, nan, nan, nan, nan, nan, nan, nan, nan, nan, nan, nan, nan, nan, nan, nan, nan, nan>>,
    <<3, nan, 1, 1, 1, 2, 1, 1, 3, nan, 10, 2, 1, 1, 1, 1, 2, nan>>,
    <<5, nan, 1, 2, 1, 3, 3, 1, 4, nan, 5, 2, 1, 1, 1, 2, 3, nan>>,
    <<6, nan, 1, 1, 2, 2, 2, 1, 4, nan, 3, 2, 1, 2, 1, 2, 2, nan>>,
    <<7, nan, 2, 3, 2, 3, 2, 3, 4, nan, 2, 5, 3, 2, 1, 2, 2, nan>>,
    <<8, nan, 1, 3, 2, 2, 3, 5, 6, nan, 2, 2, 1, 1, 1, 2, 3, nan>>,
    <<11, nan, 1, 1, 1, 3, 5, 4, 5, nan, 1, 1, 2, 2, 2, 2, 2, nan>>,
    <<14, nan, 3, 4, 4, 4, 6, 5, 6, nan, 2, 2, 3, 3, 3, 3, 4, nan>>,
    <<nan, nan, nan, nan, nan, nan, nan, nan, nan, nan, nan, nan, nan, nan, nan, nan, nan, nan>>,
    <<5, nan, 10, 5, 3, 2, 2, 1, 2, nan, 1, 1, 1, 1, 1, 1, 1, nan>>,
    <<6, nan, 2, 2, 2, 5, 2, 1, 2, nan, 1, 1, 2, 1, 1, 1, 1, nan>>,
    <<6, nan, 1, 1, 1, 3, 1, 2, 3, nan, 1, 2, 1, 1, 1, 2, 2, nan>>,
    <<6, nan, 1, 1, 2, 2, 1, 2, 3, nan, 1, 1, 1, 1, 1, 1, 2, nan>>,
    <<7, nan, 1, 1, 1, 1, 1, 2, 3, nan, 1, 1, 1, 1, 1, 1, 2, nan>>,
    <<8, nan, 1, 2, 2, 2, 2, 2, 3, nan, 1, 1, 2, 1, 1, 2, 2, nan>>,
    <<8, nan, 2, 3, 2, 2, 3, 2, 4, nan, 1, 1, 2, 2, 2, 2, 2, nan>>,
    <<nan, nan, nan, nan, nan, nan, nan, nan, nan, nan, nan, nan, nan, nan, nan, nan, nan, nan>>
  >>

BETA_V1_ANTI ==
  <<
    <<26, nan, 5, 13, 26, 21, 28, 53, 35, nan, 0, 3, 28, 23, 46, 31, 24, nan>>,
    <<nan, nan, nan, nan, nan, nan, nan, nan, nan, nan, nan, nan, nan, nan, nan, nan, nan, nan>>,
    <<5, nan, 4, 3, 6, 0, 0, 9, nan, nan, nan, nan, nan, 20, nan, nan, nan, nan>>,
    <<13, nan, 3, 1, 3, 0, 0, 0, 5, nan, nan, nan, nan, 8, 1, 0, 1, nan>>,
    <<26, nan, 6, 3, 10, 0, -22, 40, 11, nan, nan, 1, nan, -1, 0, 9, 3, nan>>,
    <<21, nan, 0, 0, 0, 4, 6, 7, 12, nan, 0, 0, 0, 6, 1, 8, 4, nan>>,
    <<28, nan, 0, 0, -22, 6, 20, 5, 14, nan, nan, 2, 0, 16, 46, 24, 0, nan>>,
    <<53, nan, 9, 0, 40, 7, 5, 16, 23, nan, nan, nan, nan, 0, 10, 13, 13, nan>>,
    <<35, nan, nan, 5, 11, 12, 14, 23, 16, nan, nan, nan, nan, 8, 0, 15, 2, nan>>,
    <<nan, nan, nan, nan, nan, nan, nan, nan, nan, nan, nan, nan, nan, nan, nan, nan, nan, nan>>,
    <<0, nan, nan, nan, nan, 0, nan, nan, nan, nan, 0, 3, nan, nan, nan, nan, nan, nan>>,
    <<3, nan, nan, nan, 1, 0, 2, nan, nan, nan, 3, nan, nan, nan, 1, nan, nan, nan>>,
    <<28, nan, nan, nan, nan, 0, 0, nan, nan, nan, nan, nan, 1, nan, nan, 0, nan, nan>>,
    <<23, nan, 20, 8, -1, 6, 16, 0, 8, nan, nan, nan, nan, 1, 6, 7, 15, nan>>,
    <<46, nan, nan, 1, 0, 1, 46, 10, 0, nan, nan, 1, nan, 6, 21, 11, 6, nan>>,
    <<31, nan, nan, 0, 9, 8, 24, 13, 15, nan, nan, nan, 0, 7, 11, 13, 0, nan>>,
    <<24, nan, nan, 1, 3, 4, 0, 13, 2, nan, nan, nan, nan, 15, 6, 0, 3, nan>>,
    <<nan, nan, nan, nan, nan, nan, nan, nan, nan, nan, nan, nan, nan, nan, nan, nan, nan, nan>>
  >>

BETA_BOND ==
  <<
    <<8, nan, 3, 5, 12, 7, 8, 11, 13, nan, 5, nan, nan, nan, nan, nan, 8, nan>>,
    <<nan, nan, nan, nan, nan, nan, nan, nan, nan, nan, nan, nan, nan, nan, nan, nan, nan, nan>>,
    <<3, nan, 1, 2, 2, 5, 13, 3, 4, nan, 7, nan, nan, nan, nan, nan, 2, nan>>,
    <<5, nan, 2, 2, 2, 1, 4, 52, 15, nan, nan, nan, nan, nan, nan, nan, nan, nan>>,
    <<12, nan, 2, 2, 19, 13, 6, 20, 7, nan, nan, nan, nan, nan, nan, nan, nan, nan>>,
    <<7, nan, 5, 1, 13, 3, 8, 4, 6, nan, nan, nan, nan, nan, nan, nan, nan, nan>>,
    <<8, nan, 13, 4, 6, 8, 27, 10, 14, nan, nan, nan, nan, nan, nan, nan, nan, nan>>,
    <<11, nan, 3, 52, 20, 4, 10, 12, 6, nan, nan, nan, nan, nan, nan, nan, nan, nan>>,
    <<13, nan, 4, 15, 7, 6, 14, 6, 6, nan, 2, nan, nan, nan, nan, nan, 6, nan>>,
    <<nan, nan, nan, nan, nan, nan, nan, nan, nan, nan, nan, nan, nan, nan, nan, nan, nan, nan>>,
    <<5, nan, 7, nan, nan, nan, nan, nan, 2, nan, 1, nan, nan, nan, nan, nan, 1, nan>>,
    <<nan, nan, nan, nan, nan, nan, nan, nan, nan, nan, nan, nan, nan, nan, nan, nan, nan, nan>>,
    <<nan, nan, nan, nan, nan, nan, nan, nan, nan, nan, nan, nan, nan, nan, nan, nan, nan, nan>>,
    <<nan, nan, nan, nan, nan, nan, nan, nan, nan, nan, nan, nan, nan, nan, nan, nan, nan, nan>>,
    <<nan, nan, nan, nan, nan, nan, nan, nan, nan, nan, nan, nan, nan, nan, nan, nan, nan, nan>>,
    <<nan, nan, nan, nan, nan, nan, nan, nan, nan, nan, nan, nan, nan, nan, nan, nan, nan, nan>>,
    <<8, nan, 2, nan, nan, nan, nan, nan, 6, nan, 1, nan, nan, nan, nan, nan, 2, nan>>,
    <<nan, nan, nan, nan, nan, nan, nan, nan, nan, nan, nan, nan, nan, nan, nan, nan, nan, nan>>
  >>

BETA_ANTI ==
  <<
    <<28, nan, 1, 17, 13, 17, 1, 38, 28, nan, 1, nan, nan, nan, nan, nan, 1, nan>>,
    <<nan, nan, nan, nan, nan, nan, nan, nan, nan, nan, nan, nan, nan, nan, nan, nan, nan, nan>>,
    <<1, nan, 45, 1, 1, 1, 1, 1, 1, nan, 1, nan, nan, nan, nan, nan, 1, nan>>,
    <<17, nan, 1, 1, 1, 1, 1, 1, 1, nan, nan, nan, nan, nan, nan, nan, nan, nan>>,
    <<13, nan, 1, 1, 1, 1, 44, 8, 1, nan, nan, nan, nan, nan, nan, nan, nan, nan>>,
    <<17, nan, 1, 1, 1, 4, 1, 26, 1, nan, nan, nan, nan, nan, nan, nan, nan, nan>>,
    <<1, nan, 1, 1, 44, 1, 34, 1, 1, nan, nan, nan, nan, nan, nan, nan, nan, nan>>,
    <<38, nan, 1, 1, 8, 26, 1, 56, 36, nan, nan, nan, nan, nan, nan, nan, nan, nan>>,
    <<28, nan, 1, 1, 1, 1, 1, 36, 6, nan, 1, nan, nan, nan, nan, nan, 1, nan>>,
    <<nan, nan, nan, nan, nan, nan, nan, nan, nan, nan, nan, nan, nan, nan, nan, nan, nan, nan>>,
    <<1, nan, 1, nan, nan, nan, nan, nan, 1, nan, 120, nan, nan, nan, nan, nan, 1, nan>>,
    <<nan, nan, nan, nan, nan, nan, nan, nan, nan, nan, nan, nan, nan, nan, nan, nan, nan, nan>>,
    <<nan, nan, nan, nan, nan, nan, nan, nan, nan, nan, nan, nan, nan, nan, nan, nan, nan, nan>>,
    <<nan, nan, nan, nan, nan, nan, nan, nan, nan, nan, nan, nan, nan, nan, nan, nan, nan, nan>>,
    <<nan, nan, nan, nan, nan, nan, nan, nan, nan, nan, nan, nan, nan, nan, nan, nan, nan, nan>>,
    <<nan, nan, nan, nan, nan, nan, nan, nan, nan, nan, nan, nan, nan, nan, nan, nan, nan, nan>>,
    <<1, nan, 1, nan, nan, nan, nan, nan, 1, nan, 1, nan, nan, nan, nan, nan, 1, nan>>,
    <<nan, nan, nan, nan, nan, nan, nan, nan, nan, nan, nan, nan, nan, nan, nan, nan, nan, nan>>
  >>

PRE_EXP ==
  <<
    <<nan, nan, nan, -1, -1, -1, -1, -1, nan, nan, nan, nan, nan, nan, nan, nan, nan, nan>>,
    <<nan, nan, nan, nan, nan, nan, nan, nan, nan, nan, nan, nan, nan, nan, nan, nan, nan, nan>>,
    <<nan, nan, -99, -1, -1, -1, -8, -2, nan, nan, nan, nan, nan, nan, nan, nan, nan, nan>>,
    <<-1, nan, -1, -83, -11, -1, -9, -17, -13, nan, nan, nan, nan, nan, nan, nan, nan, nan>>,
    <<-1, nan, -1, -11, -1, -100, -1, -43, -99, nan, nan, nan, nan, nan, nan, nan, nan, nan>>,
    <<-1, nan, -1, -1, -100, -44, -13, -6, -13, nan, nan, nan, nan, nan, nan, nan, nan, nan>>,
    <<-1, nan, -8, -9, -1, -13, -1, -26, -19, nan, nan, nan, nan, nan, nan, nan, nan, nan>>,
    <<-1, nan, -2, -17, -43, -6, -26, -2, -32, nan, nan, nan, nan, nan, nan, nan, nan, nan>>,
    <<nan, nan, nan, -13, -99, -13, -19, -32, nan, nan, nan, nan, nan, nan, nan, nan, -76, nan>>,
    <<nan, nan, nan, nan, nan, nan, nan, nan, nan, nan, nan, nan, nan, nan, nan, nan, nan, nan>>,
    <<nan, nan, nan, nan, nan, nan, nan, nan, nan, nan, -123, nan, nan, nan, nan, nan, nan, nan>>,
    <<nan, nan, nan, nan, nan, nan, nan, nan, nan, nan, nan, nan, nan, nan, nan, nan, nan, nan>>,
    <<nan, nan, nan, nan, nan, nan, nan, nan, nan, nan, nan, nan, nan, nan, nan, nan, nan, nan>>,
    <<nan, nan, nan, nan, nan, nan, nan, nan, nan, nan, nan, nan, nan, nan, nan, nan, nan, nan>>,
    <<nan, nan, nan, nan, nan, nan, nan, nan, nan, nan, nan, nan, nan, nan, nan, nan, nan, nan>>,
    <<nan, nan, nan, nan, nan, nan, nan, nan, nan, nan, nan, nan, nan, nan, nan, nan, nan, nan>>,
    <<nan, nan, nan, nan, nan, nan, nan, nan, -76, nan, nan, nan, nan, nan, nan, nan, nan, nan>>,
    <<nan, nan, nan, nan, nan, nan, nan, nan, nan, nan, nan, nan, nan, nan, nan, nan, nan, nan>>
  >>

ZETA ==
  <<
    <<nan, nan, nan, 18, 9, 11, 50, 8, nan, nan, nan, nan, nan, nan, nan, nan, nan, nan>>,
    <<nan, nan, nan, nan, nan, nan, nan, nan, nan, nan, nan, nan, nan, nan, nan, nan, nan, nan>>,
    <<nan, nan, 6, 1, 1, 10, 2, 2, nan, nan, nan, nan, nan, nan, nan, nan, nan, nan>>,
    <<18, nan, 1, 6, 4, 88, 8, 4, 6, nan, nan, nan, nan, nan, nan, nan, nan, nan>>,
    <<9, nan, 1, 4, 3, 3, 10, 3, 6, nan, nan, nan, nan, nan, nan, nan, nan, nan>>,
    <<11, nan, 10, 88, 3, 3, 7, 1, 15, nan, nan, nan, nan, nan, nan, nan, nan, nan>>,
    <<50, nan, 2, 8, 10, 7, 4, 5, 7, nan, nan, nan, nan, nan, nan, nan, nan, nan>>,
    <<8, nan, 2, 4, 3, 1, 5, 3, 19, nan, nan, nan, nan, nan, nan, nan, nan, nan>>,
    <<nan, nan, nan, 6, 6, 15, 7, 19, nan, nan, nan, nan, nan, nan, nan, nan, 27, nan>>,
    <<nan, nan, nan, nan, nan, nan, nan, nan, nan, nan, nan, nan, nan, nan, nan, nan, nan, nan>>,
    <<nan, nan, nan, nan, nan, nan, nan, nan, nan, nan, 10, nan, nan, nan, nan, nan, nan, nan>>,
    <<nan, nan, nan, nan, nan, nan, nan, nan, nan, nan, nan, nan, nan, nan, nan, nan, nan, nan>>,
    <<nan, nan, nan, nan, nan, nan, nan, nan, nan, nan, nan, nan, nan, nan, nan, nan, nan, nan>>,
    <<nan, nan, nan, nan, nan, nan, nan, nan, nan, nan, nan, nan, nan, nan, nan, nan, nan, nan>>,
    <<nan, nan, nan, nan, nan, nan, nan, nan, nan, nan, nan, nan, nan, nan, nan, nan, nan, nan>>,
    <<nan, nan, nan, nan, nan, nan, nan, nan, nan, nan, nan, nan, nan, nan, nan, nan, nan, nan>>,
    <<nan, nan, nan, nan, nan, nan, nan, nan, 27, nan, nan, nan, nan, nan, nan, nan, nan, nan>>,
    <<nan, nan, nan, nan, nan, nan, nan, nan, nan, nan, nan, nan, nan, nan, nan, nan, nan, nan>>
  >>

R_PARAM ==
  <<
    <<nan, nan, nan, 1, 4, 1, 1, 1, nan, nan, nan, nan, nan, nan, nan, nan, nan, nan>>,
    <<nan, nan, nan, nan, nan, nan, nan, nan, nan, nan, nan, nan, nan, nan, nan, nan, nan, nan>>,
    <<nan, nan, 1, 3, 2, 2, 2, 1, nan, nan, nan, nan, nan, nan, nan, nan, nan, nan>>,
    <<1, nan, 3, 1, 1, 1, 1, 2, 1, nan, nan, nan, nan, nan, nan, nan, nan, nan>>,
    <<4, nan, 2, 1, 2, 1, 2, 1, 1, nan, nan, nan, nan, nan, nan, nan, nan, nan>>,
    <<1, nan, 2, 1, 1, 1, 1, 1, 1, nan, nan, nan, nan, nan, nan, nan, nan, nan>>,
    <<1, nan, 2, 1, 2, 1, 2, 1, 1, nan, nan, nan, nan, nan, nan, nan, nan, nan>>,
    <<1, nan, 1, 2, 1, 1, 1, 2, 1, nan, nan, nan, nan, nan, nan, nan, nan, nan>>,
    <<nan, nan, nan, 1, 1, 1, 1, 1, nan, nan, nan, nan, nan, nan, nan, nan, 1, nan>>,
    <<nan, nan, nan, nan, nan, nan, nan, nan, nan, nan, nan, nan, nan, nan, nan, nan, nan, nan>>,
    <<nan, nan, nan, nan, nan, nan, nan, nan, nan, nan, 1, nan, nan, nan, nan, nan, nan, nan>>,
    <<nan, nan, nan, nan, nan, nan, nan, nan, nan, nan, nan, nan, nan, nan, nan, nan, nan, nan>>,
    <<nan, nan, nan, nan, nan, nan, nan, nan, nan, nan, nan, nan, nan, nan, nan, nan, nan, nan>>,
    <<nan, nan, nan, nan, nan, nan, nan, nan, nan, nan, nan, nan, nan, nan, nan, nan, nan, nan>>,
    <<nan, nan, nan, nan, nan, nan, nan, nan, nan, nan, nan, nan, nan, nan, nan, nan, nan, nan>>,
    <<nan, nan, nan, nan, nan, nan, nan, nan, nan, nan, nan, nan, nan, nan, nan, nan, nan, nan>>,
    <<nan, nan, nan, nan, nan, nan, nan, nan, 1, nan, nan, nan, nan, nan, nan, nan, nan, nan>>,
    <<nan, nan, nan, nan, nan, nan, nan, nan, nan, nan, nan, nan, nan, nan, nan, nan, nan, nan>>
  >>

KAPPA_BOND ==
  <<
    <<nan, nan, nan, nan, nan, nan, nan, nan, nan, nan, nan, nan, nan, nan, nan, nan, nan, nan>>,
    <<nan, nan, nan, nan, nan, nan, nan, nan, nan, nan, nan, nan, nan, nan, nan, nan, nan, nan>>,
    <<nan, nan, nan, nan, nan, nan, nan, nan, nan, nan, nan, nan, nan, nan, nan, nan, nan, nan>>,
    <<nan, nan, nan, nan, nan, nan, nan, nan, nan, nan, nan, nan, nan, nan, nan, nan, nan, nan>>,
    <<nan, nan, nan, nan, 6, 5, 5, 1, nan, nan, nan, nan, nan, nan, nan, nan, nan, nan>>,
    <<nan, nan, nan, nan, 5, 4, 4, 3, nan, nan, nan, nan, nan, nan, nan, nan, nan, nan>>,
    <<nan, nan, nan, nan, 5, 4, 3, 11, nan, nan, nan, nan, nan, nan, nan, nan, nan, nan>>,
    <<nan, nan, nan, nan, 1, 3, 11, 73, nan, nan, nan, nan, nan, nan, nan, nan, nan, nan>>,
    <<nan, nan, nan, nan, nan, nan, nan, nan, nan, nan, nan, nan, nan, nan, nan, nan, nan, nan>>,
    <<nan, nan, nan, nan, nan, nan, nan, nan, nan, nan, nan, nan, nan, nan, nan, nan, nan, nan>>,
    <<nan, nan, nan, nan, nan, nan, nan, nan, nan, nan, nan, nan, nan, nan, nan, nan, nan, nan>>,
    <<nan, nan, nan, nan, nan, nan, nan, nan, nan, nan, nan, nan, nan, nan, nan, nan, nan, nan>>,
    <<nan, nan, nan, nan, nan, nan, nan, nan, nan, nan, nan, nan, nan, nan, nan, nan, nan, nan>>,
    <<nan, nan, nan, nan, nan, nan, nan, nan, nan, nan, nan, nan, nan, nan, nan, nan, nan, nan>>,
    <<nan, nan, nan, nan, nan, nan, nan, nan, nan, nan, nan, nan, nan, nan, nan, nan, nan, nan>>,
    <<nan, nan, nan, nan, nan, nan, nan, nan, nan, nan, nan, nan, nan, nan, nan, nan, nan, nan>>,
    <<nan, nan, nan, nan, nan, nan, nan, nan, nan, nan, nan, nan, nan, nan, nan, nan, nan, nan>>,
    <<nan, nan, nan, nan, nan, nan, nan, nan, nan, nan, nan, nan, nan, nan, nan, nan, nan, nan>>
  >>

KAPPA_ANTI ==
  <<
    <<nan, nan, nan, nan, nan, nan, nan, nan, nan, nan, nan, nan, nan, nan, nan, nan, nan, nan>>,
    <<nan, nan, nan, nan, nan, nan, nan, nan, nan, nan, nan, nan, nan, nan, nan, nan, nan, nan>>,
    <<nan, nan, nan, nan, nan, nan, nan, nan, nan, nan, nan, nan, nan, nan, nan, nan, nan, nan>>,
    <<nan, nan, nan, nan, nan, nan, nan, nan, nan, nan, nan, nan, nan, nan, nan, nan, nan, nan>>,
    <<nan, nan, nan, nan, 1, 25, 8, 98, nan, nan, nan, nan, nan, nan, nan, nan, nan, nan>>,
    <<nan, nan, nan, nan, 25, 1, 2, 1, nan, nan, nan, nan, nan, nan, nan, nan, nan, nan>>,
    <<nan, nan, nan, nan, 8, 2, 12, 1, nan, nan, nan, nan, nan, nan, nan, nan, nan, nan>>,
    <<nan, nan, nan, nan, 98, 1, 1, 1, nan, nan, nan, nan, nan, nan, nan, nan, nan, nan>>,
    <<nan, nan, nan, nan, nan, nan, nan, nan, nan, nan, nan, nan, nan, nan, nan, nan, nan, nan>>,
    <<nan, nan, nan, nan, nan, nan, nan, nan, nan, nan, nan, nan, nan, nan, nan, nan, nan, nan>>,
    <<nan, nan, nan, nan, nan, nan, nan, nan, nan, nan, nan, nan, nan, nan, nan, nan, nan, nan>>,
    <<nan, nan, nan, nan, nan, nan, nan, nan, nan, nan, nan, nan, nan, nan, nan, nan, nan, nan>>,
    <<nan, nan, nan, nan, nan, nan, nan, nan, nan, nan, nan, nan, nan, nan, nan, nan, nan, nan>>,
    <<nan, nan, nan, nan, nan, nan, nan, nan, nan, nan, nan, nan, nan, nan, nan, nan, nan, nan>>,
    <<nan, nan, nan, nan, nan, nan, nan, nan, nan, nan, nan, nan, nan, nan, nan, nan, nan, nan>>,
    <<nan, nan, nan, nan, nan, nan, nan, nan, nan, nan, nan, nan, nan, nan, nan, nan, nan, nan>>,
    <<nan, nan, nan, nan, nan, nan, nan, nan, nan, nan, nan, nan, nan, nan, nan, nan, nan, nan>>,
    <<nan, nan, nan, nan, nan, nan, nan, nan, nan, nan, nan, nan, nan, nan, nan, nan, nan, nan>>
  >>


\* The tables once more, each value replaced by its rank among the distinct
\* defined values of its table (1 for the smallest; 0 for an undefined
\* entry): two entries have the same rank exactly when the float64 values of
\* the source are equal, which the rounded tables above cannot tell
TableRanks ==
  [BETA_V1_BOND |->
     <<
       <<99, 0, 70, 89, 95, 97, 101, 104, 105, 0, 88, 91, 92, 96, 98, 100, 102, 0>>,
       <<0, 0, 0, 0, 0, 0, 0, 0, 0, 0, 0, 0, 0, 0, 0, 0, 0, 0>>,
       <<70, 0, 6, 10, 15, 41, 27, 5, 78, 0, 103, 50, 8, 9, 23, 19, 62, 0>>,
       <<89, 0, 10, 39, 32, 75, 74, 29, 80, 0, 86, 45, 30, 24, 35, 40, 72, 0>>,
       <<95, 0, 15, 32, 65, 66, 42, 11, 82, 0, 74, 53, 28, 47, 4, 49, 65, 0>>,
       <<97, 0, 41, 75, 66, 67, 63, 76, 83, 0, 44, 90, 69, 46, 1, 58, 65, 0>>,
       <<101, 0, 27, 74, 42, 63, 68, 85, 93, 0, 57, 37, 31, 18, 3, 64, 79, 0>>,
       <<104, 0, 5, 29, 11, 76, 85, 81, 87, 0, 2, 25, 53, 43, 54, 60, 48, 0>>,
       <<105, 0, 78, 80, 82, 83, 93, 87, 94, 0, 39, 55, 71, 72, 77, 73, 84, 0>>,
       <<0, 0, 0, 0, 0, 0, 0, 0, 0, 0, 0, 0, 0, 0, 0, 0, 0, 0>>,
       <<88, 0, 103, 86, 74, 44, 57, 2, 39, 0, 34, 21, 35, 17, 12, 7, 24, 0>>,
       <<91, 0, 50, 45, 53, 90, 37, 25, 55, 0, 21, 4, 38, 33, 23, 16, 15, 0>>,
       <<92, 0, 8, 30, 28, 69, 31, 53, 71, 0, 35, 38, 24, 14, 22, 36, 56, 0>>,
       <<96, 0, 9, 24, 47, 46, 18, 43, 72, 0, 17, 33, 14, 22, 13, 20, 52, 0>>,
       <<98, 0, 23, 35, 4, 1, 3, 54, 77, 0, 12, 23, 22, 13, 32, 26, 51, 0>>,
       <<100, 0, 19, 40, 49, 58, 64, 60, 73, 0, 7, 16, 36, 20, 26, 47, 59, 0>>,
       <<102, 0, 62, 72, 65, 65, 79, 48, 84, 0, 24, 15, 56, 52, 51, 59, 61, 0>>,
       <<0, 0, 0, 0, 0, 0, 0, 0, 0, 0, 0, 0, 0, 0, 0, 0, 0, 0>>
     >>,
   BETA_V1_ANTI |->
     <<
       <<62, 0, 23, 43, 61, 55, 64, 70, 66, 0, 3, 14, 63, 58, 68, 65, 60, 0>>,
       <<0, 0, 0, 0, 0, 0, 0, 0, 0, 0, 0, 0, 0, 0, 0, 0, 0, 0>>,
       <<23, 0, 20, 16, 27, 3, 3, 36, 0, 0, 0, 0, 0, 53, 0, 0, 0, 0>>,
       <<43, 0, 16, 11, 19, 3, 3, 3, 25, 0, 0, 0, 0, 34, 7, 3, 4, 0>>,
       <<61, 0, 27, 19, 39, 3, 1, 67, 41, 0, 0, 5, 0, 2, 3, 37, 15, 0>>,
       <<55, 0, 3, 3, 3, 21, 28, 32, 42, 0, 3, 3, 3, 29, 10, 35, 22, 0>>,
       <<64, 0, 3, 3, 1, 28, 54, 24, 47, 0, 0, 12, 3, 51, 69, 59, 3, 0>>,
       <<70, 0, 36, 3, 67, 32, 24, 50, 57, 0, 0, 0, 0, 3, 38, 46, 45, 0>>,
       <<66, 0, 0, 25, 41, 42, 47, 57, 52, 0, 0, 0, 0, 33, 3, 49, 13, 0>>,
       <<0, 0, 0, 0, 0, 0, 0, 0, 0, 0, 0, 0, 0, 0, 0, 0, 0, 0>>,
       <<3, 0, 0, 0, 0, 3, 0, 0, 0, 0, 3, 18, 0, 0, 0, 0, 0, 0>>,
       <<14, 0, 0, 0, 5, 3, 12, 0, 0, 0, 18, 0, 0, 0, 8, 0, 0, 0>>,
       <<63, 0, 0, 0, 0, 3, 3, 0, 0, 0, 0, 0, 9, 0, 0, 3, 0, 0>>,
       <<58, 0, 53, 34, 2, 29, 51, 3, 33, 0, 0, 0, 0, 6, 30, 31, 48, 0>>,
       <<68, 0, 0, 7, 3, 10, 69, 38, 3, 0, 0, 8, 0, 30, 56, 40, 26, 0>>,
       <<65, 0, 0, 3, 37, 35, 59, 46, 49, 0, 0, 0, 3, 31, 40, 44, 3, 0>>,
       <<60, 0, 0, 4, 15, 22, 3, 45, 13, 0, 0, 0, 0, 48, 26, 3, 17, 0>>,
       <<0, 0, 0, 0, 0, 0, 0, 0, 0, 0, 0, 0, 0, 0, 0, 0, 0, 0>>
     >>,
   BETA_BOND |->
     <<
       <<29, 0, 12, 19, 35, 26, 32, 34, 39, 0, 18, 0, 0, 0, 0, 0, 30, 0>>,
       <<0, 0, 0, 0, 0, 0, 0, 0, 0, 0, 0, 0, 0, 0, 0, 0, 0, 0>>,
       <<12, 0, 2, 7, 9, 20, 38, 13, 15, 0, 28, 0, 0, 0, 0, 0, 11, 0>>,
       <<19, 0, 7, 5, 10, 4, 16, 45, 41, 0, 0, 0, 0, 0, 0, 0, 0, 0>>,
       <<35, 0, 9, 10, 42, 37, 21, 43, 27, 0, 0, 0, 0, 0, 0, 0, 0, 0>>,
       <<26, 0, 20, 4, 37, 14, 31, 17, 24, 0, 0, 0, 0, 0, 0, 0, 0, 0>>,
       <<32, 0, 38, 16, 21, 31, 44, 33, 40, 0, 0, 0, 0, 0, 0, 0, 0, 0>>,
       <<34, 0, 13, 45, 43, 17, 33, 36, 22, 0, 0, 0, 0, 0, 0, 0, 0, 0>>,
       <<39, 0, 15, 41, 27, 24, 40, 22, 23, 0, 6, 0, 0, 0, 0, 0, 25, 0>>,
       <<0, 0, 0, 0, 0, 0, 0, 0, 0, 0, 0, 0, 0, 0, 0, 0, 0, 0>>,
       <<18, 0, 28, 0, 0, 0, 0, 0, 6, 0, 1, 0, 0, 0, 0, 0, 3, 0>>,
       <<0, 0, 0, 0, 0, 0, 0, 0, 0, 0, 0, 0, 0, 0, 0, 0, 0, 0>>,
       <<0, 0, 0, 0, 0, 0, 0, 0, 0, 0, 0, 0, 0, 0, 0, 0, 0, 0>>,
       <<0, 0, 0, 0, 0, 0, 0, 0, 0, 0, 0, 0, 0, 0, 0, 0, 0, 0>>,
       <<0, 0, 0, 0, 0, 0, 0, 0, 0, 0, 0, 0, 0, 0, 0, 0, 0, 0>>,
       <<0, 0, 0, 0, 0, 0, 0, 0, 0, 0, 0, 0, 0, 0, 0, 0, 0, 0>>,
       <<30, 0, 11, 0, 0, 0, 0, 0, 25, 0, 3, 0, 0, 0, 0, 0, 8, 0>>,
       <<0, 0, 0, 0, 0, 0, 0, 0, 0, 0, 0, 0, 0, 0, 0, 0, 0, 0>>
     >>,
   BETA_ANTI |->
     <<
       <<16, 0, 7, 13, 12, 14, 6, 20, 17, 0, 8, 0, 0, 0, 0, 0, 8, 0>>,
       <<0, 0, 0, 0, 0, 0, 0, 0, 0, 0, 0, 0, 0, 0, 0, 0, 0, 0>>,
       <<7, 0, 22, 8, 8, 8, 8, 8, 8, 0, 8, 0, 0, 0, 0, 0, 8, 0>>,
       <<13, 0, 8, 8, 8, 8, 8, 8, 4, 0, 0, 0, 0, 0, 0, 0, 0, 0>>,
       <<12, 0, 8, 8, 3, 8, 21, 11, 8, 0, 0, 0, 0, 0, 0, 0, 0, 0>>,
       <<14, 0, 8, 8, 8, 9, 1, 15, 5, 0, 0, 0, 0, 0, 0, 0, 0, 0>>,
       <<6, 0, 8, 8, 21, 1, 18, 2, 8, 0, 0, 0, 0, 0, 0, 0, 0, 0>>,
       <<20, 0, 8, 8, 11, 15, 2, 23, 19, 0, 0, 0, 0, 0, 0, 0, 0, 0>>,
       <<17, 0, 8, 4, 8, 5, 8, 19, 10, 0, 8, 0, 0, 0, 0, 0, 8, 0>>,
       <<0, 0, 0, 0, 0, 0, 0, 0, 0, 0, 0, 0, 0, 0, 0, 0, 0, 0>>,
       <<8, 0, 8, 0, 0, 0, 0, 0, 8, 0, 24, 0, 0, 0, 0, 0, 8, 0>>,
       <<0, 0, 0, 0, 0, 0, 0, 0, 0, 0, 0, 0, 0, 0, 0, 0, 0, 0>>,
       <<0, 0, 0, 0, 0, 0, 0, 0, 0, 0, 0, 0, 0, 0, 0, 0, 0, 0>>,
       <<0, 0, 0, 0, 0, 0, 0, 0, 0, 0, 0, 0, 0, 0, 0, 0, 0, 0>>,
       <<0, 0, 0, 0, 0, 0, 0, 0, 0, 0, 0, 0, 0, 0, 0, 0, 0, 0>>,
       <<0, 0, 0, 0, 0, 0, 0, 0, 0, 0, 0, 0, 0, 0, 0, 0, 0, 0>>,
       <<8, 0, 8, 0, 0, 0, 0, 0, 8, 0, 8, 0, 0, 0, 0, 0, 8, 0>>,
       <<0, 0, 0, 0, 0, 0, 0, 0, 0, 0, 0, 0, 0, 0, 0, 0, 0, 0>>
     >>,
   PRE_EXP |->
     <<
       <<0, 0, 0, 26, 33, 31, 29, 32, 0, 0, 0, 0, 0, 0, 0, 0, 0, 0>>,
       <<0, 0, 0, 0, 0, 0, 0, 0, 0, 0, 0, 0, 0, 0, 0, 0, 0, 0>>,
       <<0, 0, 4, 27, 24, 23, 18, 20, 0, 0, 0, 0, 0, 0, 0, 0, 0, 0>>,
       <<26, 0, 27, 5, 16, 22, 17, 12, 14, 0, 0, 0, 0, 0, 0, 0, 0, 0>>,
       <<33, 0, 24, 16, 25, 2, 30, 8, 3, 0, 0, 0, 0, 0, 0, 0, 0, 0>>,
       <<31, 0, 23, 22, 2, 7, 15, 19, 13, 0, 0, 0, 0, 0, 0, 0, 0, 0>>,
       <<29, 0, 18, 17, 30, 15, 28, 10, 11, 0, 0, 0, 0, 0, 0, 0, 0, 0>>,
       <<32, 0, 20, 12, 8, 19, 10, 21, 9, 0, 0, 0, 0, 0, 0, 0, 0, 0>>,
       <<0, 0, 0, 14, 3, 13, 11, 9, 0, 0, 0, 0, 0, 0, 0, 0, 6, 0>>,
       <<0, 0, 0, 0, 0, 0, 0, 0, 0, 0, 0, 0, 0, 0, 0, 0, 0, 0>>,
       <<0, 0, 0, 0, 0, 0, 0, 0, 0, 0, 1, 0, 0, 0, 0, 0, 0, 0>>,
       <<0, 0, 0, 0, 0, 0, 0, 0, 0, 0, 0, 0, 0, 0, 0, 0, 0, 0>>,
       <<0, 0, 0, 0, 0, 0, 0, 0, 0, 0, 0, 0, 0, 0, 0, 0, 0, 0>>,
       <<0, 0, 0, 0, 0, 0, 0, 0, 0, 0, 0, 0, 0, 0, 0, 0, 0, 0>>,
       <<0, 0, 0, 0, 0, 0, 0, 0, 0, 0, 0, 0, 0, 0, 0, 0, 0, 0>>,
       <<0, 0, 0, 0, 0, 0, 0, 0, 0, 0, 0, 0, 0, 0, 0, 0, 0, 0>>,
       <<0, 0, 0, 0, 0, 0, 0, 0, 6, 0, 0, 0, 0, 0, 0, 0, 0, 0>>,
       <<0, 0, 0, 0, 0, 0, 0, 0, 0, 0, 0, 0, 0, 0, 0, 0, 0, 0>>
     >>,
   ZETA |->
     <<
       <<0, 0, 0, 29, 23, 27, 32, 21, 0, 0, 0, 0, 0, 0, 0, 0, 0, 0>>,
       <<0, 0, 0, 0, 0, 0, 0, 0, 0, 0, 0, 0, 0, 0, 0, 0, 0, 0>>,
       <<0, 0, 15, 2, 1, 25, 5, 4, 0, 0, 0, 0, 0, 0, 0, 0, 0, 0>>,
       <<29, 0, 2, 18, 11, 33, 22, 12, 16, 0, 0, 0, 0, 0, 0, 0, 0, 0>>,
       <<23, 0, 1, 11, 10, 8, 24, 7, 17, 0, 0, 0, 0, 0, 0, 0, 0, 0>>,
       <<27, 0, 25, 33, 8, 9, 20, 3, 28, 0, 0, 0, 0, 0, 0, 0, 0, 0>>,
       <<32, 0, 5, 22, 24, 20, 13, 14, 19, 0, 0, 0, 0, 0, 0, 0, 0, 0>>,
       <<21, 0, 4, 12, 7, 3, 14, 6, 30, 0, 0, 0, 0, 0, 0, 0, 0, 0>>,
       <<0, 0, 0, 16, 17, 28, 19, 30, 0, 0, 0, 0, 0, 0, 0, 0, 31, 0>>,
       <<0, 0, 0, 0, 0, 0, 0, 0, 0, 0, 0, 0, 0, 0, 0, 0, 0, 0>>,
       <<0, 0, 0, 0, 0, 0, 0, 0, 0, 0, 26, 0, 0, 0, 0, 0, 0, 0>>,
       <<0, 0, 0, 0, 0, 0, 0, 0, 0, 0, 0, 0, 0, 0, 0, 0, 0, 0>>,
       <<0, 0, 0, 0, 0, 0, 0, 0, 0, 0, 0, 0, 0, 0, 0, 0, 0, 0>>,
       <<0, 0, 0, 0, 0, 0, 0, 0, 0, 0, 0, 0, 0, 0, 0, 0, 0, 0>>,
       <<0, 0, 0, 0, 0, 0, 0, 0, 0, 0, 0, 0, 0, 0, 0, 0, 0, 0>>,
       <<0, 0, 0, 0, 0, 0, 0, 0, 0, 0, 0, 0, 0, 0, 0, 0, 0, 0>>,
       <<0, 0, 0, 0, 0, 0, 0, 0, 31, 0, 0, 0, 0, 0, 0, 0, 0, 0>>,
       <<0, 0, 0, 0, 0, 0, 0, 0, 0, 0, 0, 0, 0, 0, 0, 0, 0, 0>>
     >>,
   R_PARAM |->
     <<
       <<0, 0, 0, 1, 33, 7, 15, 4, 0, 0, 0, 0, 0, 0, 0, 0, 0, 0>>,
       <<0, 0, 0, 0, 0, 0, 0, 0, 0, 0, 0, 0, 0, 0, 0, 0, 0, 0>>,
       <<0, 0, 14, 32, 24, 29, 26, 5, 0, 0, 0, 0, 0, 0, 0, 0, 0, 0>>,
       <<1, 0, 32, 3, 19, 22, 21, 27, 20, 0, 0, 0, 0, 0, 0, 0, 0, 0>>,
       <<33, 0, 24, 19, 31, 11, 28, 12, 10, 0, 0, 0, 0, 0, 0, 0, 0, 0>>,
       <<7, 0, 29, 22, 11, 6, 16, 9, 17, 0, 0, 0, 0, 0, 0, 0, 0, 0>>,
       <<15, 0, 26, 21, 28, 16, 30, 13, 18, 0, 0, 0, 0, 0, 0, 0, 0, 0>>,
       <<4, 0, 5, 27, 12, 9, 13, 25, 2, 0, 0, 0, 0, 0, 0, 0, 0, 0>>,
       <<0, 0, 0, 20, 10, 17, 18, 2, 0, 0, 0, 0, 0, 0, 0, 0, 23, 0>>,
       <<0, 0, 0, 0, 0, 0, 0, 0, 0, 0, 0, 0, 0, 0, 0, 0, 0, 0>>,
       <<0, 0, 0, 0, 0, 0, 0, 0, 0, 0, 8, 0, 0, 0, 0, 0, 0, 0>>,
       <<0, 0, 0, 0, 0, 0, 0, 0, 0, 0, 0, 0, 0, 0, 0, 0, 0, 0>>,
       <<0, 0, 0, 0, 0, 0, 0, 0, 0, 0, 0, 0, 0, 0, 0, 0, 0, 0>>,
       <<0, 0, 0, 0, 0, 0, 0, 0, 0, 0, 0, 0, 0, 0, 0, 0, 0, 0>>,
       <<0, 0, 0, 0, 0, 0, 0, 0, 0, 0, 0, 0, 0, 0, 0, 0, 0, 0>>,
       <<0, 0, 0, 0, 0, 0, 0, 0, 0, 0, 0, 0, 0, 0, 0, 0, 0, 0>>,
       <<0, 0, 0, 0, 0, 0, 0, 0, 23, 0, 0, 0, 0, 0, 0, 0, 0, 0>>,
       <<0, 0, 0, 0, 0, 0, 0, 0, 0, 0, 0, 0, 0, 0, 0, 0, 0, 0>>
     >>,
   KAPPA_BOND |->
     <<
       <<0, 0, 0, 0, 0, 0, 0, 0, 0, 0, 0, 0, 0, 0, 0, 0, 0, 0>>,
       <<0, 0, 0, 0, 0, 0, 0, 0, 0, 0, 0, 0, 0, 0, 0, 0, 0, 0>>,
       <<0, 0, 0, 0, 0, 0, 0, 0, 0, 0, 0, 0, 0, 0, 0, 0, 0, 0>>,
       <<0, 0, 0, 0, 0, 0, 0, 0, 0, 0, 0, 0, 0, 0, 0, 0, 0, 0>>,
       <<0, 0, 0, 0, 8, 7, 6, 1, 0, 0, 0, 0, 0, 0, 0, 0, 0, 0>>,
       <<0, 0, 0, 0, 7, 5, 4, 3, 0, 0, 0, 0, 0, 0, 0, 0, 0, 0>>,
       <<0, 0, 0, 0, 6, 4, 2, 9, 0, 0, 0, 0, 0, 0, 0, 0, 0, 0>>,
       <<0, 0, 0, 0, 1, 3, 9, 10, 0, 0, 0, 0, 0, 0, 0, 0, 0, 0>>,
       <<0, 0, 0, 0, 0, 0, 0, 0, 0, 0, 0, 0, 0, 0, 0, 0, 0, 0>>,
       <<0, 0, 0, 0, 0, 0, 0, 0, 0, 0, 0, 0, 0, 0, 0, 0, 0, 0>>,
       <<0, 0, 0, 0, 0, 0, 0, 0, 0, 0, 0, 0, 0, 0, 0, 0, 0, 0>>,
       <<0, 0, 0, 0, 0, 0, 0, 0, 0, 0, 0, 0, 0, 0, 0, 0, 0, 0>>,
       <<0, 0, 0, 0, 0, 0, 0, 0, 0, 0, 0, 0, 0, 0, 0, 0, 0, 0>>,
       <<0, 0, 0, 0, 0, 0, 0, 0, 0, 0, 0, 0, 0, 0, 0, 0, 0, 0>>,
       <<0, 0, 0, 0, 0, 0, 0, 0, 0, 0, 0, 0, 0, 0, 0, 0, 0, 0>>,
       <<0, 0, 0, 0, 0, 0, 0, 0, 0, 0, 0, 0, 0, 0, 0, 0, 0, 0>>,
       <<0, 0, 0, 0, 0, 0, 0, 0, 0, 0, 0, 0, 0, 0, 0, 0, 0, 0>>,
       <<0, 0, 0, 0, 0, 0, 0, 0, 0, 0, 0, 0, 0, 0, 0, 0, 0, 0>>
     >>,
   KAPPA_ANTI |->
     <<
       <<0, 0, 0, 0, 0, 0, 0, 0, 0, 0, 0, 0, 0, 0, 0, 0, 0, 0>>,
       <<0, 0, 0, 0, 0, 0, 0, 0, 0, 0, 0, 0, 0, 0, 0, 0, 0, 0>>,
       <<0, 0, 0, 0, 0, 0, 0, 0, 0, 0, 0, 0, 0, 0, 0, 0, 0, 0>>,
       <<0, 0, 0, 0, 0, 0, 0, 0, 0, 0, 0, 0, 0, 0, 0, 0, 0, 0>>,
       <<0, 0, 0, 0, 2, 9, 7, 10, 0, 0, 0, 0, 0, 0, 0, 0, 0, 0>>,
       <<0, 0, 0, 0, 9, 5, 6, 3, 0, 0, 0, 0, 0, 0, 0, 0, 0, 0>>,
       <<0, 0, 0, 0, 7, 6, 8, 1, 0, 0, 0, 0, 0, 0, 0, 0, 0, 0>>,
       <<0, 0, 0, 0, 10, 3, 1, 4, 0, 0, 0, 0, 0, 0, 0, 0, 0, 0>>,
       <<0, 0, 0, 0, 0, 0, 0, 0, 0, 0, 0, 0, 0, 0, 0, 0, 0, 0>>,
       <<0, 0, 0, 0, 0, 0, 0, 0, 0, 0, 0, 0, 0, 0, 0, 0, 0, 0>>,
       <<0, 0, 0, 0, 0, 0, 0, 0, 0, 0, 0, 0, 0, 0, 0, 0, 0, 0>>,
       <<0, 0, 0, 0, 0, 0, 0, 0, 0, 0, 0, 0, 0, 0, 0, 0, 0, 0>>,
       <<0, 0, 0, 0, 0, 0, 0, 0, 0, 0, 0, 0, 0, 0, 0, 0, 0, 0>>,
       <<0, 0, 0, 0, 0, 0, 0, 0, 0, 0, 0, 0, 0, 0, 0, 0, 0, 0>>,
       <<0, 0, 0, 0, 0, 0, 0, 0, 0, 0, 0, 0, 0, 0, 0, 0, 0, 0>>,
       <<0, 0, 0, 0, 0, 0, 0, 0, 0, 0, 0, 0, 0, 0, 0, 0, 0, 0>>,
       <<0, 0, 0, 0, 0, 0, 0, 0, 0, 0, 0, 0, 0, 0, 0, 0, 0, 0>>,
       <<0, 0, 0, 0, 0, 0, 0, 0, 0, 0, 0, 0, 0, 0, 0, 0, 0, 0>>
     >>
  ]

\* the nine tables by name
ShippedTables ==
  [BETA_V1_BOND |-> BETA_V1_BOND, BETA_V1_ANTI |-> BETA_V1_ANTI, BETA_BOND |-> BETA_BOND,
   BETA_ANTI |-> BETA_ANTI, PRE_EXP |-> PRE_EXP, ZETA |-> ZETA, R_PARAM |-> R_PARAM,
   KAPPA_BOND |-> KAPPA_BOND, KAPPA_ANTI |-> KAPPA_ANTI]


\* a nan_to_num that lets NaN through
nan_to_num_keeps_nan(x) == x

\* np.nan_to_num(x, nan=0.0); the engines apply it to products of finite
\* operands only, so the +-Inf replacement of numpy never acts
nan_to_num(x) == IF IsNaN(x) THEN Zero ELSE x

\* np.clip(x, lo, hi): NaN stays NaN
clip(x, lo, hi) ==
  IF IsNaN(x) THEN NaN
  ELSE IF FLt(x, lo) THEN lo
  ELSE IF FLt(hi, x) THEN hi
  ELSE x

RECURSIVE Pow2(_)
Pow2(k) == IF k = 0 THEN 1 ELSE 2 * Pow2(k - 1)

\* float64 exp underflows to 0 below about -745 and overflows above 709
ExpUnderflow == 745

ExpOverflow == 709

\* np.exp at the resolution of the model: positive and non-decreasing, a
\* power of two per unit of the argument, saturating MaxExp2 units away from 0
exp(x) ==
  IF IsNaN(x) THEN NaN
  ELSE IF x = PInf THEN PInf
  ELSE IF x = NInf THEN Zero
  ELSE LET fl == x[1] \div x[2]
       IN  IF fl < -ExpUnderflow THEN Zero
           ELSE IF fl > ExpOverflow THEN PInf
           ELSE IF fl >= 0 THEN <<Pow2(IF fl > MaxExp2 THEN MaxExp2 ELSE fl), 1>>
           ELSE <<1, Pow2(IF -fl > MaxExp2 THEN MaxExp2 ELSE -fl)>>

RECURSIVE ISqrtIter(_, _, _)
ISqrtIter(x, lo, hi) ==
  IF lo >= hi THEN lo
  ELSE LET mid == (lo + hi + 1) \div 2
       IN  IF mid * mid <= x THEN ISqrtIter(x, mid, hi) ELSE ISqrtIter(x, lo, mid - 1)

ISqrt(x) == ISqrtIter(x, 0, IF x < 46340 THEN x ELSE 46340)

\* np.sqrt at the resolution of the model: rounded down to a multiple of
\* 1/SqrtScale (exact where the root is such a multiple, as for sqrt(1) = 1)
sqrt(x) ==
  IF IsNaN(x) \/ Sgn(x) < 0 THEN NaN
  ELSE IF x = PInf THEN PInf
  ELSE Rat(ISqrt((x[1] * SqrtScale * SqrtScale) \div x[2]), SqrtScale)

(***************************************************************************)
(* arrays: a vector is a sequence, a matrix a sequence of rows; the source *)
(* indexes from 0                                                          *)
(***************************************************************************)
At(v, i) == v[i + 1]

At2(m, i, j) == m[i + 1][j + 1]

\* np.zeros((n, n))
zeros(n) == [i \in 1..n |-> [j \in 1..n |-> Zero]]

\* np.ones((n, n))
ones(n) == [i \in 1..n |-> [j \in 1..n |-> One]]

RECURSIVE SumSeq(_)
SumSeq(v) == IF v = <<>> THEN Zero ELSE FAdd(SumSeq(SubSeq(v, 1, Len(v) - 1)), v[Len(v)])

\* np.sum over a matrix
sum(m) == SumSeq([i \in 1..Len(m) |-> SumSeq(m[i])])

\* m[i, j] += x
AddAt(m, i, j, x) == [m EXCEPT ![i + 1][j + 1] = FAdd(@, x)]

\* elementwise a * b and a + b
MatMul(a, b) == [i \in 1..Len(a) |-> [j \in 1..Len(a) |-> FMul(a[i][j], b[i][j])]]

MatAdd(a, b) == [i \in 1..Len(a) |-> [j \in 1..Len(a) |-> FAdd(a[i][j], b[i][j])]]

(***************************************************************************)
(* ZPEBOP-1 engine                                                         *)
(***************************************************************************)
\* a lookup that finds a pair only with the heavier element first
Lookup_one_order(T, a, b) ==
  IF a < b \/ T[a + 1][b + 1] = nan THEN NaN ELSE Int2Num(T[a + 1][b + 1])

\* T[idx1, idx2] of an 18x18 parameter table
Lookup(T, a, b) == IF T[a + 1][b + 1] = nan THEN NaN ELSE Int2Num(T[a + 1][b + 1])

\* a selection that takes the antibonding coefficient without its sign
beta_v1_unsigned(a, b, P) ==
  IF FGe(P, Zero) THEN Lookup(BETA_V1_BOND, a, b) ELSE Lookup(BETA_V1_ANTI, a, b)

\* np.where(is_bonding, BETA_V1_BOND[idx1, idx2], -BETA_V1_ANTI[idx1, idx2])
beta_v1(a, b, P) ==
  IF FGe(P, Zero) THEN Lookup(BETA_V1_BOND, a, b) ELSE Neg(Lookup(BETA_V1_ANTI, a, b))

\* energy_pairs = nan_to_num(2.0 * beta * bo_pairs)
energy_pairs_v1(a, b, P) == nan_to_num(FMul(FMul(Int2Num(2), beta_v1(a, b, P)), P))

\* two_body[row_idx, col_idx] = energy_pairs on a zero matrix
two_body_v1(atom_indices, bond_orders) ==
  LET n == Len(atom_indices)
  IN  [i \in 1..n |-> [j \in 1..n |->
         IF i > j THEN energy_pairs_v1(atom_indices[i], atom_indices[j], bond_orders[i][j])
         ELSE Zero]]

compute_zpe_v1(atom_indices, bond_orders) ==
  LET n == Len(atom_indices)
      two_body == two_body_v1(atom_indices, bond_orders)
  IN  [total_zpe |-> sum(two_body),
       two_body |-> two_body,
       three_body_decomp |-> zeros(n)]

(***************************************************************************)
(* ZPEBOP-2 engine                                                         *)
(***************************************************************************)
\* an antibonding test that ignores the size of the system
is_anti_any_size(P, n) == FLt(P, Zero)

\* is_anti = (bo_pairs < 0) & (n > 2)
is_anti(P, n) == FLt(P, Zero) /\ n > 2

\* beta = np.where(is_anti, BETA_ANTI[idx1, idx2], BETA_BOND[idx1, idx2])
beta_v2(a, b, P, n) == IF is_anti(P, n) THEN Lookup(BETA_ANTI, a, b) ELSE Lookup(BETA_BOND, a, b)

\* harmonic_pairs = nan_to_num(2.0 * beta * np.abs(bo_pairs))
harmonic_pairs(a, b, P, n) == nan_to_num(FMul(FMul(Int2Num(2), beta_v2(a, b, P, n)), FAbs(P)))

\* has_anharm = ~(isnan(pre_exp) | isnan(zeta) | isnan(r_param))
has_anharm(a, b) ==
  ~(IsNaN(Lookup(PRE_EXP, a, b)) \/ IsNaN(Lookup(ZETA, a, b)) \/ IsNaN(Lookup(R_PARAM, a, b)))

\* a short-range term computed for every pair, defined parameters or not
anharmonic_pairs_unmasked(a, b, R) ==
  FMul(Lookup(PRE_EXP, a, b),
       exp(FMul(Neg(Lookup(ZETA, a, b)), FSub(R, Lookup(R_PARAM, a, b)))))

\* anharmonic_pairs: pre_exp * exp(-zeta * (dist - r_param)) where has_anharm, else 0
anharmonic_pairs(a, b, R) ==
  IF has_anharm(a, b)
  THEN FMul(Lookup(PRE_EXP, a, b),
            exp(FMul(Neg(Lookup(ZETA, a, b)), FSub(R, Lookup(R_PARAM, a, b)))))
  ELSE Zero

two_body_v2(atom_indices, bond_orders, distance_matrix) ==
  LET n == Len(atom_indices)
  IN  [i \in 1..n |-> [j \in 1..n |->
         IF i > j
         THEN FAdd(harmonic_pairs(atom_indices[i], atom_indices[j], bond_orders[i][j], n),
                   anharmonic_pairs(atom_indices[i], atom_indices[j], distance_matrix[i][j]))
         ELSE Zero]]

\* a mask taken from the harmonic table instead of KAPPA_BOND
HAS_KAPPA_from_beta(a, b) == ~IsNaN(Lookup(BETA_BOND, a, b))

\* HAS_KAPPA = ~np.isnan(KAPPA_BOND)
HAS_KAPPA(a, b) == ~IsNaN(Lookup(KAPPA_BOND, a, b))

RECURSIVE Flatten(_)
Flatten(ss) == IF ss = <<>> THEN <<>> ELSE Head(ss) \o Flatten(Tail(ss))

\* the triplets <<i, j, k>>, i > j > k, in the order of the three nested loops
Triplets(n) ==
  Flatten([i0 \in 1..(IF n > 2 THEN n - 2 ELSE 0) |->
            Flatten([j \in 1..i0 |-> [k1 \in 1..j |-> <<i0 + 1, j, k1 - 1>>]])])

\* the HAS_KAPPA test on the three pairs of a triplet
all_have_kappa(atom_indices, t) ==
  /\ HAS_KAPPA(At(atom_indices, t[1]), At(atom_indices, t[2]))
  /\ HAS_KAPPA(At(atom_indices, t[1]), At(atom_indices, t[3]))
  /\ HAS_KAPPA(At(atom_indices, t[2]), At(atom_indices, t[3]))

\* kappa_xy = KAPPA_ANTI[..] if is_anti_xy else KAPPA_BOND[..]
kappa(a, b, P, n) == IF is_anti(P, n) THEN Lookup(KAPPA_ANTI, a, b) ELSE Lookup(KAPPA_BOND, a, b)

\* np.clip((Ra**2 + Rb**2 - Rc**2) / (2 * Ra * Rb), -1, 1)
cosine(Ra, Rb, Rc) ==
  clip(FDiv(FSub(FAdd(Square(Ra), Square(Rb)), Square(Rc)),
            FMul(FMul(Int2Num(2), Ra), Rb)),
       Neg(One), One)

\* three_body_value of the triplet t = <<i, j, k>>
three_body_value(atom_indices, bond_orders, distance_matrix, t) ==
  LET n == Len(atom_indices)
      i == t[1]
      j == t[2]
      k == t[3]
      bo_ij == At2(bond_orders, i, j)
      bo_ik == At2(bond_orders, i, k)
      bo_jk == At2(bond_orders, j, k)
      kappa_ij == kappa(At(atom_indices, i), At(atom_indices, j), bo_ij, n)
      kappa_ik == kappa(At(atom_indices, i), At(atom_indices, k), bo_ik, n)
      kappa_jk == kappa(At(atom_indices, j), At(atom_indices, k), bo_jk, n)
      R_ij == At2(distance_matrix, i, j)
      R_ik == At2(distance_matrix, i, k)
      R_jk == At2(distance_matrix, j, k)
      cos_ij == cosine(R_ik, R_jk, R_ij)
      cos_ik == cosine(R_ij, R_jk, R_ik)
      cos_jk == cosine(R_ij, R_ik, R_jk)
      kappa_prod == FMul(FMul(kappa_ij, kappa_ik), kappa_jk)
      bo_prod == FMul(FMul(FMul(FMul(FMul(Int2Num(2), FAbs(bo_ij)), Int2Num(2)), FAbs(bo_ik)),
                           Int2Num(2)), FAbs(bo_jk))
      cos_prod == FMul(FMul(cos_ij, cos_ik), cos_jk)
  IN  FMul(FMul(kappa_prod, bo_prod), cos_prod)

\* the bonds of the legacy ZPEBOP-2 engine, 'C~C', 'N~N', 'O~O', 'B~B', 'B~N',
\* 'N~B', 'O~B', 'B~O', 'B~C', 'C~B', 'C~O', 'O~C', 'C~N', 'N~C', 'N~O', 'O~N',
\* by element index (B 4, C 5, N 6, O 7)
legacy_bonds ==
  {<<5, 5>>, <<6, 6>>, <<7, 7>>, <<4, 4>>, <<4, 6>>,
   <<6, 4>>, <<7, 4>>, <<4, 7>>, <<4, 5>>, <<5, 4>>,
   <<5, 7>>, <<7, 5>>, <<5, 6>>, <<6, 5>>, <<6, 7>>,
   <<7, 6>>}

\* np.prod(np.isin(three_bonds, bonds)) == 1 of the legacy engine
legacy_qualifies(atom_indices, t) ==
  /\ <<At(atom_indices, t[1]), At(atom_indices, t[2])>> \in legacy_bonds
  /\ <<At(atom_indices, t[1]), At(atom_indices, t[3])>> \in legacy_bonds
  /\ <<At(atom_indices, t[2]), At(atom_indices, t[3])>> \in legacy_bonds

\* a test that lets a triplet through as soon as one of its pairs has kappa
qualifies_with_one_pair(atom_indices, bond_orders, t) ==
  \/ HAS_KAPPA(At(atom_indices, t[1]), At(atom_indices, t[2]))
  \/ HAS_KAPPA(At(atom_indices, t[1]), At(atom_indices, t[3]))
  \/ HAS_KAPPA(At(atom_indices, t[2]), At(atom_indices, t[3]))

\* a triplet is skipped when a pair lacks HAS_KAPPA or a selected kappa is NaN
qualifies(atom_indices, bond_orders, t) ==
  LET n == Len(atom_indices)
  IN  /\ all_have_kappa(atom_indices, t)
      /\ ~IsNaN(kappa(At(atom_indices, t[1]), At(atom_indices, t[2]), At2(bond_orders, t[1], t[2]), n))
      /\ ~IsNaN(kappa(At(atom_indices, t[1]), At(atom_indices, t[3]), At2(bond_orders, t[1], t[3]), n))
      /\ ~IsNaN(kappa(At(atom_indices, t[2]), At(atom_indices, t[3]), At2(bond_orders, t[2], t[3]), n))

\* a decomposition in which a pair keeps the first share it was given: the
\* share of a later triplet is dropped when the accumulated entry is not zero
decompose_first_share_only(three_body_decomp, two_body, t, value) ==
  LET e_ij == At2(two_body, t[1], t[2])
      e_ik == At2(two_body, t[1], t[3])
      e_jk == At2(two_body, t[2], t[3])
      sum_two == FAdd(FAdd(e_ij, e_ik), e_jk)
      given(a, b, e) == IF At2(three_body_decomp, a, b) = Zero
                        THEN FMul(value, FDiv(e, sum_two)) ELSE Zero
      d1 == AddAt(three_body_decomp, t[1], t[2], given(t[1], t[2], e_ij))
      d2 == AddAt(d1, t[1], t[3], given(t[1], t[3], e_ik))
  IN  AddAt(d2, t[2], t[3], given(t[2], t[3], e_jk))

\* a decomposition that gives each of the three pairs a third of the value
decompose_in_thirds(three_body_decomp, two_body, t, value) ==
  LET third == FDiv(value, Int2Num(3))
  IN  AddAt(AddAt(AddAt(three_body_decomp, t[1], t[2], third), t[1], t[3], third),
            t[2], t[3], third)

\* three_body_decomp[..] += three_body_value * (e_xy / sum_two) for the three pairs
decompose(three_body_decomp, two_body, t, value) ==
  LET e_ij == At2(two_body, t[1], t[2])
      e_ik == At2(two_body, t[1], t[3])
      e_jk == At2(two_body, t[2], t[3])
      sum_two == FAdd(FAdd(e_ij, e_ik), e_jk)
      d1 == AddAt(three_body_decomp, t[1], t[2], FMul(value, FDiv(e_ij, sum_two)))
      d2 == AddAt(d1, t[1], t[3], FMul(value, FDiv(e_ik, sum_two)))
  IN  AddAt(d2, t[2], t[3], FMul(value, FDiv(e_jk, sum_two)))

\* one iteration of the triplet loop on acc = [decomp, total]
triplet_step(atom_indices, bond_orders, distance_matrix, two_body, acc, t) ==
  IF ~qualifies(atom_indices, bond_orders, t) THEN acc
  ELSE LET value == three_body_value(atom_indices, bond_orders, distance_matrix, t)
       IN  [decomp |-> decompose(acc.decomp, two_body, t, value),
            total |-> FAdd(acc.total, value)]

RECURSIVE three_body_loop(_, _, _, _, _)
three_body_loop(atom_indices, bond_orders, distance_matrix, two_body, ts) ==
  IF ts = <<>> THEN [decomp |-> zeros(Len(atom_indices)), total |-> Zero]
  ELSE triplet_step(atom_indices, bond_orders, distance_matrix, two_body,
                    three_body_loop(atom_indices, bond_orders, distance_matrix, two_body,
                                    SubSeq(ts, 1, Len(ts) - 1)),
                    ts[Len(ts)])

\* total_zpe = np.sum(two_body) + three_body_total
total_zpe_v2(two_body, three_body_total) == FAdd(sum(two_body), three_body_total)

compute_zpe_v2(atom_indices, bond_orders, distance_matrix) ==
  LET two_body == two_body_v2(atom_indices, bond_orders, distance_matrix)
      tb == three_body_loop(atom_indices, bond_orders, distance_matrix, two_body,
                            Triplets(Len(atom_indices)))
  IN  [total_zpe |-> total_zpe_v2(two_body, tb.total),
       two_body |-> two_body,
       three_body_decomp |-> tb.decomp]

(***************************************************************************)
(* Gaussian output parser                                                  *)
(*                                                                         *)
(* A document is a sequence of newline-terminated lines.  A line is kept   *)
(* as what the parser can read off it: its kind (which marker it holds, or *)
(* which layout it has), the element or atomic number it names, and its    *)
(* numeric fields as tokens.  A position is the 1-based index of the line  *)
(* that starts there; Len(data) + 1 is the end of the data, 0 is the -1 of *)
(* bytes.find.                                                             *)
(***************************************************************************)
\* a field that float() rejects
BadToken == -888888

Line(kind) == [kind |-> kind, sym |-> -1, toks |-> <<>>]

\* " C", " H  1 B1", ...: a line of the atom listing naming element index el
\* (an index outside 0..17 is a symbol that is not supported)
AtomLine(el) == [kind |-> "atom", sym |-> el, toks |-> <<>>]

\* a row of the standard-orientation table: atomic number, then x, y, z
CoordLine(an, parts) == [kind |-> "coord", sym |-> an, toks |-> parts]

\* a header line of column numbers and a row of the condensed matrix
ColumnNumbers(nums) == [kind |-> "colnums", sym |-> -1, toks |-> nums]

MatrixRow(el, values) == [kind |-> "mrow", sym |-> el, toks |-> values]

\* a row of the charges table: charge, spin density
ChargeRow(el, values) == [kind |-> "chg", sym |-> el, toks |-> values]

\* float(tok) succeeds
IsFloat(tok) == tok # BadToken

\* float(tok)
float(tok) == Int2Num(tok)

\* data.find(marker, pos) for a marker that lies inside a line of one of the
\* kinds: the first such line at or after position pos, 0 when there is none
RECURSIVE find(_, _, _)
find(data, kinds, pos) ==
  IF pos < 1 \/ pos > Len(data) THEN 0
  ELSE IF data[pos].kind \in kinds THEN pos
  ELSE find(data, kinds, pos + 1)

\* a search that takes the first line of the kind instead of the last
rfind_first_occurrence(data, kinds, pos) == find(data, kinds, 1)

\* data.rfind(marker): the last line of the kind, 0 when there is none
RECURSIVE rfind(_, _, _)
rfind(data, kinds, pos) ==
  IF pos < 1 THEN 0
  ELSE IF data[pos].kind \in kinds THEN pos
  ELSE rfind(data, kinds, pos - 1)

\* pos = data.find(b'\n', pos) + 1: the start of the next line; at the end of
\* the data find gives -1 and the position falls back to the first line
NextLine(data, pos) == IF pos >= 1 /\ pos <= Len(data) THEN pos + 1 ELSE 1

RECURSIVE SkipLines(_, _, _)
SkipLines(data, pos, count) ==
  IF count = 0 THEN pos ELSE SkipLines(data, NextLine(data, pos), count - 1)

\* data[pos:pos+3].decode('ascii').strip(): the element index when the field
\* is a symbol, -1 otherwise
first_field(line) == IF line.kind = "atom" THEN line.sym ELSE -1

\* atom in _SUPPORTED_SET
supported(el) == el \in 0..17

\* line[34:].split(): the x, y, z of a coordinate row; of a matrix row or a
\* header of column numbers whatever is printed from the third column on
columns_35(line) ==
  IF line.kind = "coord" THEN line.toks
  ELSE IF line.kind \in {"mrow", "colnums"} /\ Len(line.toks) >= 3
       THEN SubSeq(line.toks, 3, Len(line.toks))
  ELSE <<>>

\* line.strip() is empty
is_empty(line) == line.kind = "blank"

\* all(p.isdigit() or ...) over line.strip().split(): a header of integers
is_header(line) == line.kind = "colnums"

\* line[12:].split(): the values of a matrix row; a coordinate row shows its
\* atomic number, atomic type and coordinates, a charge row its two numbers,
\* a short atom line nothing, any other line text
columns_13(line) ==
  IF line.kind \in {"mrow", "chg"} THEN line.toks
  ELSE IF line.kind = "coord" THEN <<line.sym, 0>> \o line.toks
  ELSE IF line.kind = "atom" THEN <<>>
  ELSE <<BadToken>>

\* line[11:22].strip(): the charge of a charge row; the first value of a
\* matrix row and the atomic number of a coordinate row lie there too
columns_12_22(line) ==
  IF line.kind \in {"mrow", "chg"} /\ line.toks # <<>> THEN line.toks[1]
  ELSE IF line.kind = "coord" THEN line.sym
  ELSE BadToken

\* a distance matrix filled on both sides of the diagonal
compute_distance_matrix_both_triangles(coordinates) ==
  LET n == Len(coordinates)
      dist(i, j) ==
        sqrt(FAdd(FAdd(Square(FSub(coordinates[j][1], coordinates[i][1])),
                       Square(FSub(coordinates[j][2], coordinates[i][2]))),
                  Square(FSub(coordinates[j][3], coordinates[i][3]))))
  IN  [i \in 1..n |-> [j \in 1..n |-> IF i # j THEN dist(i, j) ELSE Zero]]

\* compute_distance_matrix: row i gets, left of the diagonal, the distances
\* of the rows before it to row i
compute_distance_matrix(coordinates) ==
  LET n == Len(coordinates)
      dist(i, j) ==
        sqrt(FAdd(FAdd(Square(FSub(coordinates[j][1], coordinates[i][1])),
                       Square(FSub(coordinates[j][2], coordinates[i][2]))),
                  Square(FSub(coordinates[j][3], coordinates[i][3]))))
  IN  [i \in 1..n |-> [j \in 1..n |-> IF i > j THEN dist(i, j) ELSE Zero]]

\* the while loop of _parse_atoms_fast over the lines pos..last
RECURSIVE atoms_loop(_, _, _, _)
atoms_loop(data, pos, last, atoms) ==
  IF pos > last THEN atoms
  ELSE atoms_loop(data, pos + 1, last,
                  IF supported(first_field(data[pos]))
                  THEN Append(atoms, first_field(data[pos]))
                  ELSE atoms)

\* _parse_atoms_fast: the end markers b'\n \n' and b'\n       Variables:' are
\* searched from start_pos, so the newline they begin with ends a line at or
\* after start_pos and the sentinel line itself comes after start_pos
parse_atoms_fast(data, start_pos) ==
  LET sentinel == find(data, {"blank", "variables"}, start_pos + 1)
      last == IF sentinel = 0 THEN Len(data) ELSE sentinel - 1
  IN  atoms_loop(data, start_pos, last, <<>>)

\* _parse_coordinates_fast: coords[:atom_idx]
RECURSIVE parse_coordinates_fast(_, _, _, _)
parse_coordinates_fast(data, pos, n_atoms, coords) ==
  IF Len(coords) >= n_atoms THEN coords
  ELSE IF pos > Len(data) THEN coords
  ELSE IF data[pos].kind = "dashes" THEN coords
  ELSE LET parts == columns_35(data[pos])
       IN  IF Len(parts) >= 3 /\ \A k \in 1..3 : IsFloat(parts[k])
           THEN parse_coordinates_fast(data, pos + 1, n_atoms,
                  Append(coords, <<float(parts[1]), float(parts[2]), float(parts[3])>>))
           ELSE parse_coordinates_fast(data, pos + 1, n_atoms, coords)

\* matrix[row, col_offset + j] = val for every value of a data line, where
\* the column is inside the matrix (row, col_offset 0-based)
store_row(matrix, row, col_offset, values, n_atoms) ==
  [i \in 1..n_atoms |-> [j \in 1..n_atoms |->
     IF i = row + 1 /\ j - 1 >= col_offset /\ j - col_offset <= Len(values)
     THEN float(values[j - col_offset])
     ELSE matrix[i][j]]]

\* a scan that moves the column offset on by five at a new block
matrix_line_by_five(st, line, n_atoms) ==
  IF is_empty(line) THEN st
  ELSE IF is_header(line)
       THEN IF line.toks[1] > 1 /\ st.row_in_block > 0
            THEN [st EXCEPT !.col_offset = @ + 5, !.row_in_block = 0]
            ELSE st
  ELSE LET values == columns_13(line)
       IN  IF \E k \in 1..Len(values) : ~IsFloat(values[k]) THEN st
           ELSE IF values # <<>> /\ st.row_in_block < n_atoms
                THEN [st EXCEPT
                        !.matrix = store_row(@, st.row_in_block, st.col_offset, values, n_atoms),
                        !.row_in_block = @ + 1]
           ELSE st

\* one line of the while loop of _parse_mulliken_matrix_fast; st is the
\* record of matrix, col_offset and row_in_block
matrix_line(st, line, n_atoms) ==
  IF is_empty(line) THEN st
  ELSE IF is_header(line)
       THEN IF line.toks[1] > 1 /\ st.row_in_block > 0
            THEN [st EXCEPT !.col_offset = @ + 6, !.row_in_block = 0]
            ELSE st
  ELSE LET values == columns_13(line)
       IN  IF \E k \in 1..Len(values) : ~IsFloat(values[k]) THEN st
           ELSE IF values # <<>> /\ st.row_in_block < n_atoms
                THEN [st EXCEPT
                        !.matrix = store_row(@, st.row_in_block, st.col_offset, values, n_atoms),
                        !.row_in_block = @ + 1]
           ELSE st

RECURSIVE matrix_loop(_, _, _, _, _)
matrix_loop(data, pos, end_pos, n_atoms, st) ==
  IF pos >= end_pos THEN st
  ELSE matrix_loop(data, pos + 1, end_pos, n_atoms, matrix_line(st, data[pos], n_atoms))

\* _parse_mulliken_matrix_fast: the scan stops before the line of the end
\* marker b'MBS Atomic-Atomic Spin Densities.', or at the end of the data
parse_mulliken_matrix_fast(data, start_pos, n_atoms) ==
  LET marker == find(data, {"spin"}, start_pos)
      end_pos == IF marker = 0 THEN Len(data) + 1 ELSE marker
  IN  matrix_loop(data, start_pos, end_pos, n_atoms,
                  [matrix |-> zeros(n_atoms), col_offset |-> 0, row_in_block |-> 0]).matrix

\* the while loop of _parse_mulliken_charges_fast: the end marker lies behind
\* the first column of its line, so that line is still read
RECURSIVE charges_loop(_, _, _, _, _)
charges_loop(data, pos, end_pos, n_atoms, charges) ==
  IF pos > end_pos \/ pos > Len(data) \/ Len(charges) >= n_atoms THEN charges
  ELSE charges_loop(data, pos + 1, end_pos, n_atoms,
                    IF IsFloat(columns_12_22(data[pos]))
                    THEN Append(charges, float(columns_12_22(data[pos])))
                    ELSE charges)

\* _parse_mulliken_charges_fast: charges[:atom_idx]
parse_mulliken_charges_fast(data, start_pos, n_atoms) ==
  LET marker == find(data, {"sumchg"}, start_pos)
      end_pos == IF marker = 0 THEN Len(data) + 1 ELSE marker
  IN  charges_loop(data, start_pos, end_pos, n_atoms, <<>>)

\* the atoms parse_gaussian_output extracts once the charge marker is found
listed_atoms(data) ==
  parse_atoms_fast(data, NextLine(data, find(data, {"charge"}, 1)))

\* a run of parse_gaussian_output that leaves the charges section unchecked
missing_section_unchecked_charges(data) ==
  IF find(data, {"charge"}, 1) = 0 THEN "Could not find 'Charge =' in output file"
  ELSE IF Len(listed_atoms(data)) = 0 THEN "No atoms found in output file"
  ELSE IF rfind(data, {"orient"}, Len(data)) = 0
       THEN "Could not find 'Standard orientation' in output file"
  ELSE IF find(data, {"mulliken"}, 1) = 0
       THEN "Could not find Mulliken bond orders in output file"
  ELSE ""

\* the ValueError parse_gaussian_output raises, "" when it raises none
missing_section(data) ==
  IF find(data, {"charge"}, 1) = 0 THEN "Could not find 'Charge =' in output file"
  ELSE IF Len(listed_atoms(data)) = 0 THEN "No atoms found in output file"
  ELSE IF rfind(data, {"orient"}, Len(data)) = 0
       THEN "Could not find 'Standard orientation' in output file"
  ELSE IF find(data, {"mulliken"}, 1) = 0
       THEN "Could not find Mulliken bond orders in output file"
  ELSE IF find(data, {"charges"}, 1) = 0
       THEN "Could not find Mulliken charges in output file"
  ELSE ""

\* the MolecularData parse_gaussian_output returns when it raises nothing
molecular_data(data) ==
  LET atom_indices == listed_atoms(data)
      n_atoms == Len(atom_indices)
      coord_pos == rfind(data, {"orient"}, Len(data))
      coordinates == parse_coordinates_fast(data, SkipLines(data, coord_pos, 5), n_atoms, <<>>)
      mulliken_pos == find(data, {"mulliken"}, 1)
      charges_pos == find(data, {"charges"}, 1)
  IN  [atoms |-> atom_indices,
       coordinates |-> coordinates,
       mulliken_bond_orders |->
         parse_mulliken_matrix_fast(data, SkipLines(data, mulliken_pos, 2), n_atoms),
       mulliken_charges |->
         parse_mulliken_charges_fast(data, SkipLines(data, charges_pos, 2), n_atoms),
       atom_indices |-> atom_indices,
       distance_matrix |-> compute_distance_matrix(coordinates)]

\* parse_gaussian_output: the error raised and no record, or the record
parse_gaussian_output(data) ==
  IF missing_section(data) # ""
  THEN [error |-> missing_section(data), record |-> <<>>]
  ELSE [error |-> "", record |-> <<molecular_data(data)>>]

(***************************************************************************)
(* ZPECalculator                                                           *)
(***************************************************************************)
\* ATOMIC_MASSES[self.atoms[i]], by element index, in amu
ATOMIC_MASSES == <<1, 4, 7, 9, 11, 12, 14, 16, 19, 20, 23, 24, 27, 28, 31, 32, 35, 40>>

\* a lookup that takes the atom number for a 0-based index: isotopes.get(num - 1, default)
IsoGet_zero_based(isotopes, num, default) ==
  IF num - 1 \in DOMAIN isotopes THEN isotopes[num - 1] ELSE default

\* isotopes.get(num, default)
IsoGet(isotopes, num, default) == IF num \in DOMAIN isotopes THEN isotopes[num] ELSE default

\* correction[i, j] = sqrt(mu_1 / mu_2) for the pair i > j (0-based)
correction_factor(atom_indices, isotopes, i, j) ==
  LET m1_i == Int2Num(ATOMIC_MASSES[At(atom_indices, i) + 1])
      m1_j == Int2Num(ATOMIC_MASSES[At(atom_indices, j) + 1])
      mu_1 == FDiv(FMul(m1_i, m1_j), FAdd(m1_i, m1_j))
      m2_i == IsoGet(isotopes, i + 1, m1_i)
      m2_j == IsoGet(isotopes, j + 1, m1_j)
      mu_2 == FDiv(FMul(m2_i, m2_j), FAdd(m2_i, m2_j))
  IN  sqrt(FDiv(mu_1, mu_2))

\* _compute_isotope_correction_matrix: ones, with the lower triangle filled in
compute_isotope_correction_matrix(atom_indices, isotopes) ==
  LET n == Len(atom_indices)
  IN  [i \in 1..n |-> [j \in 1..n |->
         IF i > j THEN correction_factor(atom_indices, isotopes, i - 1, j - 1) ELSE One]]

\* a check of the upper end of the range only
invalid_atom_number_upper_only(atom_num, n) == atom_num > n

\* an atom number that fails the check of compute_zpe_isotope
invalid_atom_number(atom_num, n) == atom_num < 1 \/ atom_num > n

\* the validation loop of compute_zpe_isotope raises ValueError
isotopes_rejected(isotopes, n) == \E atom_num \in DOMAIN isotopes : invalid_atom_number(atom_num, n)

\* a dispatch that runs Model 2 whatever self.model is
run_engine_zpebop2_only(m, atom_indices, bond_orders, distance_matrix) ==
  compute_zpe_v2(atom_indices, bond_orders, distance_matrix)

\* the engine call of compute_zpe, by self.model
run_engine(m, atom_indices, bond_orders, distance_matrix) ==
  IF m = "zpebop1" THEN compute_zpe_v1(atom_indices, bond_orders)
  ELSE compute_zpe_v2(atom_indices, bond_orders, distance_matrix)

\* an isotope result whose three-body decomposition is left uncorrected
isotope_result_two_body_only(normal_result, correction, isotopes) ==
  LET two_body_isotope == MatMul(normal_result.two_body, correction)
      three_body_isotope == normal_result.three_body_decomp
  IN  [total_zpe |-> FAdd(sum(two_body_isotope), sum(three_body_isotope)),
       total_zpe_normal |-> normal_result.total_zpe,
       two_body |-> two_body_isotope,
       two_body_normal |-> normal_result.two_body,
       three_body_decomp |-> three_body_isotope,
       three_body_decomp_normal |-> normal_result.three_body_decomp,
       correction_factors |-> correction,
       isotopes |-> isotopes]

\* IsotopeZPEResult built from the normal result and the correction matrix
isotope_result(normal_result, correction, isotopes) ==
  LET two_body_isotope == MatMul(normal_result.two_body, correction)
      three_body_isotope == MatMul(normal_result.three_body_decomp, correction)
  IN  [total_zpe |-> FAdd(sum(two_body_isotope), sum(three_body_isotope)),
       total_zpe_normal |-> normal_result.total_zpe,
       two_body |-> two_body_isotope,
       two_body_normal |-> normal_result.two_body,
       three_body_decomp |-> three_body_isotope,
       three_body_decomp_normal |-> normal_result.three_body_decomp,
       correction_factors |-> correction,
       isotopes |-> isotopes]

\* bond energies that leave the three-body share out of net
bond_energies_net_as_gross(r) ==
  LET n == Len(r.two_body)
  IN  [gross |-> r.two_body,
       net |-> r.two_body,
       composite |-> [i \in 1..n |-> [j \in 1..n |->
          IF i > j THEN r.two_body[i][j]
          ELSE IF i < j THEN r.two_body[j][i]
          ELSE Zero]]]

\* BondEnergies(gross, net, composite) of compute_bond_energies, from the
\* ZPEResult r that compute_zpe gave
bond_energies(r) ==
  LET n == Len(r.two_body)
      gross == r.two_body
      net == MatAdd(r.two_body, r.three_body_decomp)
  IN  [gross |-> gross,
       net |-> net,
       composite |-> [i \in 1..n |-> [j \in 1..n |->
          IF i > j THEN net[i][j]
          ELSE IF i < j THEN gross[j][i]
          ELSE Zero]]]

\* the pairs <<i, j>> of "for i in range(1, n): for j in range(i)", in the
\* order of the loops (0-based)
RECURSIVE LoopPairs(_)
LoopPairs(n) ==
  IF n <= 1 THEN <<>>
  ELSE LoopPairs(n - 1) \o [j \in 1..(n - 1) |-> <<n - 1, j - 1>>]

\* the label of the pair <<i, j>>: f"{atoms[j]}{j+1}{marker_j}-{atoms[i]}{i+1}
\* {marker_i}" as its fields, or f"{atoms[j]}-{atoms[i]}"; an atom is written
\* by its element index, a marker is whether the '*' is printed
label(atoms, p, include_atom_numbers, isotopes) ==
  LET i == p[1]
      j == p[2]
      marker(k) == isotopes # <<>> /\ (k + 1) \in DOMAIN isotopes
  IN  IF include_atom_numbers
      THEN <<At(atoms, j), j + 1, marker(j), At(atoms, i), i + 1, marker(i)>>
      ELSE <<At(atoms, j), At(atoms, i)>>

\* the loop of sort_bond_energies over the pairs ps: the labels and energies
\* appended, a pair with e < threshold skipped
RECURSIVE collect(_, _, _, _, _, _)
collect(atoms, bond_energy_matrix, ps, include_atom_numbers, threshold, isotopes) ==
  IF ps = <<>> THEN [labels |-> <<>>, energies |-> <<>>]
  ELSE LET before == collect(atoms, bond_energy_matrix, SubSeq(ps, 1, Len(ps) - 1),
                             include_atom_numbers, threshold, isotopes)
           p == ps[Len(ps)]
           e == At2(bond_energy_matrix, p[1], p[2])
       IN  IF FLt(e, threshold) THEN before
           ELSE [labels |-> Append(before.labels,
                                   label(atoms, p, include_atom_numbers, isotopes)),
                 energies |-> Append(before.energies, e)]

\* the order np.argsort compares floats by: a NaN comes after every number
sorts_before(x, y) == FLt(x, y) \/ (IsNaN(y) /\ ~IsNaN(x))

\* np.argsort(energies): the 1-based positions of the energies in sorted
\* order; arrays this short are sorted by insertion, so equal energies keep
\* their order
RECURSIVE argsort_upto(_, _)
argsort_upto(energies, k) ==
  IF k = 0 THEN <<>>
  ELSE LET idx == argsort_upto(energies, k - 1)
           later == {q \in 1..Len(idx) : sorts_before(energies[k], energies[idx[q]])}
           at == IF later = {} THEN Len(idx) + 1
                 ELSE CHOOSE q \in later : \A q2 \in later : q <= q2
       IN  SubSeq(idx, 1, at - 1) \o <<k>> \o SubSeq(idx, at, Len(idx))

argsort(energies) == argsort_upto(energies, Len(energies))

\* energies - energies[0] when relative and len(energies) > 0
relative_to_first(energies, relative) ==
  IF relative /\ Len(energies) > 0
  THEN [k \in 1..Len(energies) |-> FSub(energies[k], energies[1])]
  ELSE energies

\* sort_bond_energies: (labels, energies)
sort_bond_energies(atoms, bond_energy_matrix, relative, include_atom_numbers, threshold, isotopes) ==
  LET found == collect(atoms, bond_energy_matrix, LoopPairs(Len(atoms)),
                       include_atom_numbers, threshold, isotopes)
      sort_idx == argsort(found.energies)
  IN  [labels |-> [k \in 1..Len(sort_idx) |-> found.labels[sort_idx[k]]],
       energies |-> relative_to_first([k \in 1..Len(sort_idx) |-> found.energies[sort_idx[k]]],
                                      relative)]

\* tables whose writeable flag was never cleared
writeable_left_on(name) == TRUE

\* _arr.flags.writeable of the table called name, once the module is imported
writeable(name) == FALSE

\* tabs[name][a, b] = value: numpy raises ValueError ("assignment destination
\* is read-only") on an array that is not writeable and stores nothing
setitem(tabs, name, a, b, value) ==
  IF writeable(name) THEN [tabs EXCEPT ![name][a + 1][b + 1] = value] ELSE tabs

\* arrays whose bond orders were overwritten by their absolute values
left_in_place_abs(atom_indices, bond_orders, distance_matrix) ==
  <<atom_indices,
    [i \in 1..Len(bond_orders) |-> [j \in 1..Len(bond_orders) |-> FAbs(bond_orders[i][j])]],
    distance_matrix>>

\* what a call of the calculator leaves in self.atom_indices, self.bond_orders
\* and self.distance_matrix: the engines take the pairs out by index arrays
\* (copies) and np.where, np.abs, np.nan_to_num and the arithmetic return new
\* arrays; nothing is assigned to an element of the arguments
left_in_place(atom_indices, bond_orders, distance_matrix) ==
  <<atom_indices, bond_orders, distance_matrix>>

VARIABLES
  model,            \* self.model
  atom_indices,     \* self.atom_indices (self.atoms by element index)
  bond_orders,      \* self.bond_orders
  distance_matrix,  \* self.distance_matrix
  result,           \* self._result: <<>> is None, <<r>> the cached ZPEResult
  engine_runs,      \* how many times an energy engine has run
  ret,              \* the last call: its name, argument, error and return value
  data,             \* the document handed to parse_gaussian_output
  parsed,           \* the outcome of parse_gaussian_output
  tables            \* the parameter tables of zpebop.constants, by name

vars == <<model, atom_indices, bond_orders, distance_matrix, result, engine_runs, ret, data,
         parsed, tables>>

calc_vars == <<model, atom_indices, bond_orders, distance_matrix, result, engine_runs, ret>>

NoIsotopes == <<>>

NoCall == [op |-> "none", isotopes |-> NoIsotopes, error |-> "", value |-> <<>>]

\* the cached result after compute_zpe, and whether the engine had to run
cached_result == 
  IF result # <<>> THEN result
  ELSE <<run_engine(model, atom_indices, bond_orders, distance_matrix)>>

\* the arrays of the molecule after a call
LeftInPlace ==
  \E left \in {left_in_place(atom_indices, bond_orders, distance_matrix)} :
    /\ atom_indices' = left[1]
    /\ bond_orders' = left[2]
    /\ distance_matrix' = left[3]

\* ZPECalculator.compute_zpe
ComputeZpe ==
  /\ result' = cached_result
  /\ engine_runs' = IF result # <<>> THEN engine_runs ELSE engine_runs + 1
  /\ ret' = [op |-> "compute_zpe", isotopes |-> NoIsotopes, error |-> "", value |-> result']
  /\ LeftInPlace
  /\ UNCHANGED <<model, data, parsed, tables>>

\* a compute_zpe_isotope that keeps the corrected energies in self._result
ComputeZpeIsotope_overwriting_cache(isotopes) ==
  /\ \E normal \in {cached_result} :
     \E r \in {isotope_result(normal[1],
                              compute_isotope_correction_matrix(atom_indices, isotopes),
                              isotopes)} :
       /\ result' = <<[total_zpe |-> r.total_zpe, two_body |-> r.two_body,
                       three_body_decomp |-> r.three_body_decomp]>>
       /\ engine_runs' = IF result # <<>> THEN engine_runs ELSE engine_runs + 1
       /\ ret' = [op |-> "compute_zpe_isotope", isotopes |-> isotopes, error |-> "",
                  value |-> <<r>>]
  /\ LeftInPlace
  /\ UNCHANGED <<model, data, parsed, tables>>

\* ZPECalculator.compute_zpe_isotope(isotopes)
ComputeZpeIsotope(isotopes) ==
  /\ IF isotopes_rejected(isotopes, Len(atom_indices))
     THEN /\ ret' = [op |-> "compute_zpe_isotope", isotopes |-> isotopes,
                     error |-> "ValueError", value |-> <<>>]
          /\ UNCHANGED <<result, engine_runs>>
     ELSE \E normal \in {cached_result} :
          \E correction \in {compute_isotope_correction_matrix(atom_indices, isotopes)} :
            /\ result' = normal
            /\ engine_runs' = IF result # <<>> THEN engine_runs ELSE engine_runs + 1
            /\ ret' = [op |-> "compute_zpe_isotope", isotopes |-> isotopes, error |-> "",
                       value |-> <<isotope_result(normal[1], correction, isotopes)>>]
  /\ LeftInPlace
  /\ UNCHANGED <<model, data, parsed, tables>>

\* ZPECalculator.compute_bond_energies
ComputeBondEnergies ==
  /\ result' = cached_result
  /\ engine_runs' = IF result # <<>> THEN engine_runs ELSE engine_runs + 1
  /\ ret' = [op |-> "compute_bond_energies", isotopes |-> NoIsotopes, error |-> "",
             value |-> <<bond_energies(result'[1])>>]
  /\ LeftInPlace
  /\ UNCHANGED <<model, data, parsed, tables>>

\* ZPECalculator.compute_bond_energies_isotope(isotopes): the pair of the
\* normal and the isotope-corrected BondEnergies, from compute_zpe_isotope;
\* the mapping as compute_zpe_isotope hands it on is kept beside the pair
ComputeBondEnergiesIsotope(isotopes) ==
  /\ IF isotopes_rejected(isotopes, Len(atom_indices))
     THEN /\ ret' = [op |-> "compute_bond_energies_isotope", isotopes |-> isotopes,
                     error |-> "ValueError", value |-> <<>>]
          /\ UNCHANGED <<result, engine_runs>>
     ELSE \E normal \in {cached_result} :
          \E r \in {isotope_result(normal[1],
                                   compute_isotope_correction_matrix(atom_indices, isotopes),
                                   isotopes)} :
            /\ result' = normal
            /\ engine_runs' = IF result # <<>> THEN engine_runs ELSE engine_runs + 1
            /\ ret' = [op |-> "compute_bond_energies_isotope", isotopes |-> isotopes,
                       error |-> "",
                       value |-> <<[isotopes |-> r.isotopes,
                                    normal |->
                                      bond_energies([two_body |-> r.two_body_normal,
                                                     three_body_decomp |->
                                                       r.three_body_decomp_normal]),
                                    isotope |->
                                      bond_energies([two_body |-> r.two_body,
                                                     three_body_decomp |->
                                                       r.three_body_decomp])]>>]
  /\ LeftInPlace
  /\ UNCHANGED <<model, data, parsed, tables>>

\* ZPECalculator.sort_bond_energies on a matrix that compute_bond_energies
\* gave; the call is kept with its arguments beside what it returned
SortBondEnergies(which, relative, include_atom_numbers, threshold, isotopes) ==
  /\ ret.op = "compute_bond_energies"
  /\ \E bond_energy_matrix \in {ret.value[1][which]} :
     \E sorted \in {sort_bond_energies(atom_indices, bond_energy_matrix, relative,
                                       include_atom_numbers, threshold, isotopes)} :
       ret' = [op |-> "sort_bond_energies", isotopes |-> isotopes, error |-> "",
               value |-> <<[bond_energy_matrix |-> bond_energy_matrix,
                            relative |-> relative,
                            include_atom_numbers |-> include_atom_numbers,
                            threshold |-> threshold,
                            labels |-> sorted.labels,
                            energies |-> sorted.energies]>>]
  /\ UNCHANGED <<model, atom_indices, bond_orders, distance_matrix, result, engine_runs,
                 data, parsed, tables>>

\* an assignment to an entry of a parameter table, from anywhere in the
\* process
SetItem(name, a, b, value) ==
  /\ tables' = setitem(tables, name, a, b, value)
  /\ ret' = [op |-> "setitem", isotopes |-> NoIsotopes,
             error |-> IF writeable(name) THEN "" ELSE "ValueError", value |-> <<>>]
  /\ UNCHANGED <<model, atom_indices, bond_orders, distance_matrix, result, engine_runs,
                 data, parsed>>

\* compute_distance_matrix(coordinates), called on its own; the call is kept
\* with its argument beside what it returned
ComputeDistanceMatrix(coordinates) ==
  /\ ret' = [op |-> "compute_distance_matrix", isotopes |-> NoIsotopes, error |-> "",
             value |-> <<[coordinates |-> coordinates,
                          distance_matrix |-> compute_distance_matrix(coordinates)]>>]
  /\ UNCHANGED <<model, atom_indices, bond_orders, distance_matrix, result, engine_runs,
                 data, parsed, tables>>

\* compute_zpe_v2 up to the three-body pass: two_body is finished, the
\* accumulators are zero and every triplet is still to be visited
BeginThreeBody ==
  /\ model = "zpebop2"
  /\ ret = NoCall
  /\ ret' = [op |-> "three_body", isotopes |-> NoIsotopes, error |-> "",
             value |-> <<[two_body |-> two_body_v2(atom_indices, bond_orders, distance_matrix),
                          pending |-> {Triplets(Len(atom_indices))[x] :
                                         x \in 1..Len(Triplets(Len(atom_indices)))},
                          decomp |-> zeros(Len(atom_indices)),
                          total |-> Zero]>>]
  /\ UNCHANGED <<model, atom_indices, bond_orders, distance_matrix, result, engine_runs,
                 data, parsed, tables>>

\* the body of the triplet loop for the triplet t, taken in any order
TripletStep(t) ==
  /\ ret.op = "three_body"
  /\ t \in ret.value[1].pending
  /\ \E acc \in {triplet_step(atom_indices, bond_orders, distance_matrix,
                              ret.value[1].two_body,
                              [decomp |-> ret.value[1].decomp, total |-> ret.value[1].total],
                              t)} :
       ret' = [ret EXCEPT !.value = <<[two_body |-> ret.value[1].two_body,
                                       pending |-> ret.value[1].pending \ {t},
                                       decomp |-> acc.decomp,
                                       total |-> acc.total]>>]
  /\ UNCHANGED <<model, atom_indices, bond_orders, distance_matrix, result, engine_runs,
                 data, parsed, tables>>

\* the end of compute_zpe_v2 once every triplet has been visited
EndThreeBody ==
  /\ ret.op = "three_body"
  /\ ret.value[1].pending = {}
  /\ result = <<>>
  /\ result' = <<[total_zpe |-> total_zpe_v2(ret.value[1].two_body, ret.value[1].total),
                  two_body |-> ret.value[1].two_body,
                  three_body_decomp |-> ret.value[1].decomp]>>
  /\ engine_runs' = engine_runs + 1
  /\ UNCHANGED <<model, atom_indices, bond_orders, distance_matrix, ret, data, parsed, tables>>

\* _parse_mulliken_matrix_fast(data, pos, n_atoms) up to its while loop, called
\* two lines under the marker of the bond-order section
BeginScan ==
  /\ ret = NoCall
  /\ find(data, {"mulliken"}, 1) # 0
  /\ \E start_pos \in {SkipLines(data, find(data, {"mulliken"}, 1), 2)} :
       ret' = [op |-> "scan", isotopes |-> NoIsotopes, error |-> "",
               value |-> <<[pos |-> start_pos,
                            end_pos |-> IF find(data, {"spin"}, start_pos) = 0
                                        THEN Len(data) + 1
                                        ELSE find(data, {"spin"}, start_pos),
                            st |-> [matrix |-> zeros(Len(atom_indices)),
                                    col_offset |-> 0, row_in_block |-> 0]]>>]
  /\ UNCHANGED <<model, atom_indices, bond_orders, distance_matrix, result, engine_runs,
                 data, parsed, tables>>

\* one pass of the while loop: the line at pos
ScanLine ==
  /\ ret.op = "scan"
  /\ ret.value[1].pos < ret.value[1].end_pos
  /\ ret' = [ret EXCEPT !.value =
               <<[pos |-> ret.value[1].pos + 1,
                  end_pos |-> ret.value[1].end_pos,
                  st |-> matrix_line(ret.value[1].st, data[ret.value[1].pos],
                                     Len(atom_indices))]>>]
  /\ UNCHANGED <<model, atom_indices, bond_orders, distance_matrix, result, engine_runs,
                 data, parsed, tables>>

\* return matrix
EndScan ==
  /\ ret.op = "scan"
  /\ ret.value[1].pos >= ret.value[1].end_pos
  /\ ret' = [ret EXCEPT !.op = "parse_mulliken_matrix",
                        !.value = <<ret.value[1].st.matrix>>]
  /\ UNCHANGED <<model, atom_indices, bond_orders, distance_matrix, result, engine_runs,
                 data, parsed, tables>>


(***************************************************************************)
(* inputs                                                                  *)
(***************************************************************************)
Elements == 0..17

\* elements of the calculator runs and of the larger molecules: H, C
TripletElements == {0, 5}

\* elements of the three-atom molecules of the engine runs: H, He, C (He has
\* no parameters at all, H-H no short-range term, only C-C has kappa)
TriatomicElements == {0, 1, 5}

AtomLists(n) ==
  [1..n -> IF n <= 2 THEN Elements ELSE IF n = 3 THEN TriatomicElements ELSE TripletElements]

\* bond orders of a pair
BOVals == {Int2Num(-1), Zero, One}

\* distances of a pair in a compact geometry (0: coincident atoms)
DistVals == {Zero, One, Int2Num(2)}

\* strictly lower triangular n x n matrices over vals (zero elsewhere); up to
\* three atoms every such matrix, beyond that the banded ones (the entry
\* depends on i - j only)
LowerMatrices(n, vals) ==
  IF n <= 3
  THEN {[i \in 1..n |-> [j \in 1..n |-> IF i > j THEN f[<<i, j>>] ELSE Zero]] :
          f \in [{p \in (1..n) \X (1..n) : p[1] > p[2]} -> vals]}
  ELSE {[i \in 1..n |-> [j \in 1..n |-> IF i > j THEN f[i - j] ELSE Zero]] :
          f \in [1..(n - 1) -> vals]}

\* the matrix m with every entry multiplied by the integer s
Scaled(m, s) == [i \in 1..Len(m) |-> [j \in 1..Len(m) |-> FMul(Int2Num(s), m[i][j])]]

\* distance matrices: the compact geometries, and the same blown up by Far
DistanceMatrices(n) ==
  LowerMatrices(n, DistVals) \cup {Scaled(m, Far) : m \in LowerMatrices(n, DistVals)}

\* distance matrices with all pairs at the same distance
UniformDistanceMatrices(n) ==
  {[i \in 1..n |-> [j \in 1..n |-> IF i > j THEN d ELSE Zero]] :
     d \in {Zero, One, Int2Num(Far)}}

\* the isotope mappings offered to a molecule of n atoms: none, deuterium (2)
\* on atom 1, mass 14 on atom n, both, and the out-of-range numbers 0 and n+1
IsotopeMaps(n) ==
  {NoIsotopes,
   [k \in {1} |-> Int2Num(2)],
   [k \in {n} |-> Int2Num(14)],
   [k \in {1, n} |-> IF k = 1 THEN Int2Num(2) ELSE Int2Num(14)],
   [k \in {0} |-> Int2Num(2)],
   [k \in {1, n + 1} |-> Int2Num(2)]}

\* the tables as import zpebop.constants leaves them
Imported == tables = ShippedTables

\* a calculator just constructed: nothing cached, nothing called
Fresh ==
  /\ result = <<>>
  /\ engine_runs = 0
  /\ ret = NoCall

\* no document is read in the calculator and engine runs
NoDocument ==
  /\ data = <<>>
  /\ parsed = <<>>

\* ZPECalculator(mol_data, model) for the molecules of the calculator runs
Init ==
  /\ model \in {"zpebop1", "zpebop2"}
  /\ \E n \in 1..MaxAtoms :
       /\ atom_indices \in [1..n -> TripletElements]
       /\ bond_orders \in LowerMatrices(n, BOVals)
       /\ distance_matrix \in (IF model = "zpebop2" THEN UniformDistanceMatrices(n)
                               ELSE {zeros(n)})
  /\ Fresh
  /\ Imported
  /\ NoDocument

Next ==
  \/ ComputeZpe
  \/ \E isotopes \in IsotopeMaps(Len(atom_indices)) : ComputeZpeIsotope(isotopes)

Spec == Init /\ [][Next]_vars

\* ZPECalculator(mol_data, model) for the molecules of the engine runs
InitEngine ==
  /\ model \in {"zpebop1", "zpebop2"}
  /\ \E n \in 1..MaxAtoms :
       /\ atom_indices \in AtomLists(n)
       /\ bond_orders \in LowerMatrices(n, BOVals)
       /\ distance_matrix \in (IF model = "zpebop2" THEN DistanceMatrices(n) ELSE {zeros(n)})
  /\ Fresh
  /\ Imported
  /\ NoDocument

NextEngine == ComputeZpe

SpecEngine == InitEngine /\ [][NextEngine]_vars

(***************************************************************************)
(* documents                                                               *)
(***************************************************************************)
\* the elements of the listed atoms, in turn: C, H, O
ElementOf(k) == <<5, 0, 7>>[((k - 1) % 3) + 1]

\* a symbol that is not one of the 18 supported ones
UnsupportedSymbol == 25

PlainListing(n) == [k \in 1..n |-> AtomLine(ElementOf(k))]

\* a listing with a line of text and a line of an unsupported symbol in it
MixedListing(n) ==
  IF n = 0 THEN <<Line("text"), AtomLine(UnsupportedSymbol)>>
  ELSE <<AtomLine(ElementOf(1)), Line("text"), AtomLine(UnsupportedSymbol)>> \o
       [k \in 1..(n - 1) |-> AtomLine(ElementOf(k + 1))]

\* the atom listings of n atoms: as printed; with a line of text and a line
\* of an unsupported symbol after the first atom; with a blank line directly
\* under the charge line
AtomListings(n) ==
  {PlainListing(n),
   MixedListing(n),
   <<Line("blank")>> \o PlainListing(n)}

Sentinels == {<<Line("blank")>>, <<Line("variables"), Line("text")>>, <<>>}

ChargeSections ==
  {<<>>} \cup
  {<<Line("charge")>> \o listing \o sentinel :
     listing \in UNION {AtomListings(n) : n \in 0..MaxAtoms}, sentinel \in Sentinels}

\* the coordinate rows of k atoms at scale s
CoordRows(k, s) == [i \in 1..k |-> CoordLine(6, <<3 * i * s, 4 * i * s, 0>>)]

OrientationHeader ==
  <<Line("orient"), Line("dashes"), Line("text"), Line("text"), Line("dashes")>>

\* a geometry block: the marker, four lines of table header, rows, a rule
GeometryBlock(rows) == OrientationHeader \o rows \o <<Line("dashes")>>

\* geometry sections: none; one block of 0..MaxAtoms rows; a block with a row
\* whose y field is not a number, or with a row of two fields only, between
\* two good rows; two blocks
OrientationSections ==
  {<<>>} \cup
  {GeometryBlock(CoordRows(k, 1)) : k \in 0..MaxAtoms} \cup
  {GeometryBlock(<<CoordLine(6, <<3, 4, 0>>), CoordLine(6, <<1, BadToken, 0>>),
                   CoordLine(6, <<6, 8, 0>>)>>),
   GeometryBlock(<<CoordLine(6, <<3, 4, 0>>), CoordLine(6, <<1, 1>>),
                   CoordLine(6, <<6, 8, 0>>)>>)} \cup
  {GeometryBlock(CoordRows(MaxAtoms, 2)) \o GeometryBlock(CoordRows(k, 1)) :
     k \in {1, MaxAtoms}}

\* the condensed matrix of m atoms, lower triangle, in one block of columns
MatrixBlock(m) ==
  <<ColumnNumbers([c \in 1..m |-> c])>> \o
  [r \in 1..m |-> MatrixRow(ElementOf(r), [c \in 1..r |-> 10 * r + c])]

MullikenSections ==
  {<<>>} \cup
  {<<Line("mulliken")>> \o MatrixBlock(m) \o tail :
     m \in 1..MaxAtoms, tail \in {<<Line("spin")>>, <<>>}}

MullikenChargesSections ==
  {<<>>} \cup
  {<<Line("charges"), ColumnNumbers(<<1, 2>>)>> \o
     [r \in 1..m |-> ChargeRow(ElementOf(r), <<-r, 0>>)] \o <<Line("sumchg")>> :
     m \in 1..MaxAtoms}

\* what follows the last section: nothing, or a geometry marker cut off
Tails == {<<>>, <<Line("orient")>>}

Documents ==
  {c \o o \o m \o q \o t :
     c \in ChargeSections, o \in OrientationSections, m \in MullikenSections,
     q \in MullikenChargesSections, t \in Tails}

\* parse_gaussian_output(filepath) on the document data
ParseGaussianOutput ==
  /\ parsed' = <<parse_gaussian_output(data)>>
  /\ UNCHANGED <<model, atom_indices, bond_orders, distance_matrix, result, engine_runs,
                 ret, data, tables>>

\* a document to parse, beside a calculator that is not used
InitParse ==
  /\ data \in Documents
  /\ parsed = <<>>
  /\ model = "zpebop1"
  /\ atom_indices = <<0>>
  /\ bond_orders = zeros(1)
  /\ distance_matrix = zeros(1)
  /\ Fresh
  /\ Imported

NextParse == ParseGaussianOutput

SpecParse == InitParse /\ [][NextParse]_vars

(***************************************************************************)
(* result assembly                                                         *)
(***************************************************************************)
\* threshold: float = 0.01
DefaultThreshold == <<1, 100>>

\* the thresholds of the sorting runs: the default, and one below every
\* energy of the molecules at hand
Thresholds == {DefaultThreshold, Int2Num(-Far)}

\* how the labels are asked for: include_atom_numbers and isotopes
LabelModes == {<<TRUE, NoIsotopes>>, <<TRUE, [k \in {1} |-> Int2Num(2)]>>, <<FALSE, NoIsotopes>>}

NextAssembly ==
  \/ ComputeBondEnergies
  \/ \E which \in {"gross", "net", "composite"}, relative \in BOOLEAN,
        threshold \in Thresholds, mode \in LabelModes :
       SortBondEnergies(which, relative, mode[1], threshold, mode[2])

\* the calculators of Init, asked for their bond energy tables
SpecAssembly == Init /\ [][NextAssembly]_vars

(***************************************************************************)
(* every operation, beside assignments to the parameter tables             *)
(***************************************************************************)
\* a document with every section, for n atoms
CompleteDocument(n) ==
  <<Line("charge")>> \o PlainListing(n) \o <<Line("blank")>> \o
  GeometryBlock(CoordRows(n, 1)) \o
  <<Line("mulliken")>> \o MatrixBlock(n) \o <<Line("spin")>> \o
  <<Line("charges"), ColumnNumbers(<<1, 2>>)>> \o
  [r \in 1..n |-> ChargeRow(ElementOf(r), <<-r, 0>>)] \o <<Line("sumchg")>>

\* a calculator on a molecule of H and C with every pair bonded at distance
\* 1, and a document: empty, or complete
InitTables ==
  /\ model \in {"zpebop1", "zpebop2"}
  /\ \E n \in 1..MaxAtoms :
       /\ atom_indices \in [1..n -> TripletElements]
       /\ bond_orders \in LowerMatrices(n, {One})
       /\ distance_matrix \in (IF model = "zpebop2" THEN LowerMatrices(n, {One})
                               ELSE {zeros(n)})
  /\ data \in {<<>>} \cup {CompleteDocument(n) : n \in 1..MaxAtoms}
  /\ parsed = <<>>
  /\ Fresh
  /\ Imported

NextTables ==
  \/ ParseGaussianOutput
  \/ ComputeZpe
  \/ \E isotopes \in IsotopeMaps(Len(atom_indices)) : ComputeZpeIsotope(isotopes)
  \/ ComputeBondEnergies
  \/ \E which \in {"gross", "net", "composite"}, relative \in BOOLEAN :
       SortBondEnergies(which, relative, TRUE, DefaultThreshold, NoIsotopes)
  \/ \E name \in DOMAIN ShippedTables, a \in TripletElements :
       SetItem(name, a, a, 0)

SpecTables == InitTables /\ [][NextTables]_vars

(***************************************************************************)
(* geometries                                                              *)
(***************************************************************************)
\* positions of an atom: on the axes, off them, and one far from the rest
Positions ==
  {<<Zero, Zero, Zero>>, <<One, Zero, Zero>>, <<Zero, One, Zero>>, <<One, One, One>>,
   <<Int2Num(-1), Zero, Int2Num(2)>>, <<Int2Num(3), Int2Num(4), Zero>>,
   <<Rat(1, 2), Zero, Int2Num(Far)>>}

\* coordinate arrays of 0..MaxAtoms rows; atoms may coincide
CoordinateArrays == UNION {[1..n -> Positions] : n \in 0..MaxAtoms}

\* nothing computed yet, beside a calculator and a parser that are not used
InitDistance ==
  /\ model = "zpebop1"
  /\ atom_indices = <<0>>
  /\ bond_orders = zeros(1)
  /\ distance_matrix = zeros(1)
  /\ Fresh
  /\ Imported
  /\ NoDocument

\* one call per run: the function keeps nothing between calls
NextDistance ==
  /\ ret = NoCall
  /\ \E coordinates \in CoordinateArrays : ComputeDistanceMatrix(coordinates)

SpecDistance == InitDistance /\ [][NextDistance]_vars

(***************************************************************************)
(* the three-body pass, triplet by triplet                                 *)
(***************************************************************************)
\* molecules of MaxAtoms + 1 atoms, so that pairs are shared by triplets:
\* all carbon, or with a hydrogen first; bond orders 1 or -1, the same for all
\* pairs or alternating with the distance of the positions; all atoms at
\* distance 1 of each other, or on a line
InitOrder ==
  /\ model = "zpebop2"
  /\ \E n \in {MaxAtoms + 1} :
       /\ atom_indices \in {[k \in 1..n |-> 5], [k \in 1..n |-> IF k = 1 THEN 0 ELSE 5]}
       /\ bond_orders \in
            {[i \in 1..n |-> [j \in 1..n |->
                IF i > j THEN Int2Num(IF (i - j) % 2 = 0 THEN even ELSE odd) ELSE Zero]] :
               even \in {-1, 1}, odd \in {-1, 1}}
       /\ distance_matrix \in
            {[i \in 1..n |-> [j \in 1..n |-> IF i > j THEN One ELSE Zero]],
             [i \in 1..n |-> [j \in 1..n |-> IF i > j THEN Int2Num(i - j) ELSE Zero]]}
  /\ Fresh
  /\ Imported
  /\ NoDocument

NextOrder ==
  \/ BeginThreeBody
  \/ \E t \in {<<i, j, k>> : i \in 0..MaxAtoms, j \in 0..MaxAtoms, k \in 0..MaxAtoms} :
       TripletStep(t)
  \/ EndThreeBody

SpecOrder == InitOrder /\ [][NextOrder]_vars

(***************************************************************************)
(* the bond-order section, line by line                                    *)
(***************************************************************************)
\* the value printed for row r under column number c
Printed(r, c) == 10 * r + c

\* the columns of block b of a matrix of n columns printed w columns a block
BlockColumns(n, w, b) == [c \in 1..(IF n - b * w < w THEN n - b * w ELSE w) |-> b * w + c]

\* block b: the header of column numbers, then a row for every atom
PrintedBlock(n, w, b) ==
  <<ColumnNumbers(BlockColumns(n, w, b))>> \o
  [r \in 1..n |-> MatrixRow(ElementOf(r),
                            [c \in 1..Len(BlockColumns(n, w, b)) |->
                               Printed(r, BlockColumns(n, w, b)[c])])]

\* the square matrix of n atoms printed in consecutive blocks of w columns
RECURSIVE PrintedBlocks(_, _, _)
PrintedBlocks(n, w, b) ==
  IF b * w >= n THEN <<>> ELSE PrintedBlock(n, w, b) \o PrintedBlocks(n, w, b + 1)

\* the widths of a block of columns: five or six
BlockWidths == {5, 6}

\* a bond-order section of 1..MatrixAtoms atoms, with the end marker (under
\* a blank line or not) or with the charges section directly under it
InitMatrix ==
  /\ \E n \in 1..MatrixAtoms, w \in BlockWidths :
       /\ atom_indices = [k \in 1..n |-> ElementOf(k)]
       /\ bond_orders = zeros(n)
       /\ distance_matrix = zeros(n)
       /\ data \in {<<Line("mulliken")>> \o PrintedBlocks(n, w, 0) \o tail :
                      tail \in {<<Line("spin"), Line("text")>>,
                                <<Line("blank"), Line("spin")>>,
                                <<Line("charges"), ColumnNumbers(<<1, 2>>),
                                  ChargeRow(ElementOf(1), <<-1, 0>>), Line("sumchg")>>}}
  /\ model = "zpebop2"
  /\ parsed = <<>>
  /\ Fresh
  /\ Imported

NextMatrix == BeginScan \/ ScanLine \/ EndScan

SpecMatrix == InitMatrix /\ [][NextMatrix]_vars

(***************************************************************************)
(* sequences of calls on one calculator                                    *)
(***************************************************************************)
\* calculators on molecules of H and C with bond orders 1 and -1, every pair
\* at distance 1
InitCalls ==
  /\ model \in {"zpebop1", "zpebop2"}
  /\ \E n \in 1..MaxAtoms :
       /\ atom_indices \in [1..n -> TripletElements]
       /\ bond_orders \in LowerMatrices(n, {One, Int2Num(-1)})
       /\ distance_matrix \in (IF model = "zpebop2" THEN LowerMatrices(n, {One})
                               ELSE {zeros(n)})
  /\ Fresh
  /\ Imported
  /\ NoDocument

NextCalls ==
  \/ ComputeZpe
  \/ ComputeBondEnergies
  \/ \E isotopes \in IsotopeMaps(Len(atom_indices)) : ComputeZpeIsotope(isotopes)
  \/ \E isotopes \in IsotopeMaps(Len(atom_indices)) : ComputeBondEnergiesIsotope(isotopes)

SpecCalls == InitCalls /\ [][NextCalls]_vars

(***************************************************************************)
(* the three-body pass on triatomic molecules of H, B, C, N, O             *)
(***************************************************************************)
\* three atoms of H, B, C, N, O at distance 1 of each other, every pair with
\* bond order 1 or -1
InitMask ==
  /\ model = "zpebop2"
  /\ atom_indices \in [1..3 -> {0, 4, 5, 6, 7}]
  /\ bond_orders \in LowerMatrices(3, {One, Int2Num(-1)})
  /\ distance_matrix = [i \in 1..3 |-> [j \in 1..3 |-> IF i > j THEN One ELSE Zero]]
  /\ Fresh
  /\ Imported
  /\ NoDocument

SpecMask == InitMask /\ [][NextOrder]_vars


(***************************************************************************)
(* properties                                                              *)
(***************************************************************************)
NAtoms == Len(atom_indices)

\* the pairs <<i, j>>, i > j, as 1-based positions of the matrices
Pairs == {p \in (1..NAtoms) \X (1..NAtoms) : p[1] > p[2]}

HasResult == result # <<>>

\* the sum of the entries of m below the diagonal, pair by pair
RECURSIVE SumOver(_, _)
SumOver(m, ps) ==
  IF ps = {} THEN Zero
  ELSE LET p == CHOOSE q \in ps : TRUE
       IN  FAdd(m[p[1]][p[2]], SumOver(m, ps \ {p}))

OffLowerZero(m) == \A i \in 1..Len(m) : \A j \in 1..Len(m) : i <= j => m[i][j] = Zero

IsotopeReturned == ret.op = "compute_zpe_isotope" /\ ret.error = ""

\* C1: for both models the returned total_zpe equals the sum of the entries
\* of two_body plus the sum of the entries of three_body_decomp.
C1_TotalIsSumOfMatrices ==
  HasResult =>
    result[1].total_zpe =
      FAdd(SumOver(result[1].two_body, Pairs), SumOver(result[1].three_body_decomp, Pairs))

\* C2: for Model 1 three_body_decomp is the all-zero N x N matrix and
\* total_zpe is the sum of the entries of two_body.
C2_Model1NoThreeBody ==
  (HasResult /\ model = "zpebop1") =>
    /\ Len(result[1].three_body_decomp) = NAtoms
    /\ \A i \in 1..NAtoms :
         /\ Len(result[1].three_body_decomp[i]) = NAtoms
         /\ \A j \in 1..NAtoms : result[1].three_body_decomp[i][j] = Zero
    /\ OffLowerZero(result[1].two_body)
    /\ result[1].total_zpe = SumOver(result[1].two_body, Pairs)

C2_Witness ==
  /\ HasResult /\ model = "zpebop1" /\ NAtoms = 3
  /\ \A p \in Pairs : Sgn(result[1].two_body[p[1]][p[2]]) # 0
  /\ \E p \in Pairs : FLt(bond_orders[p[1]][p[2]], Zero)

\* the table Model 1 selects for a pair by the sign of its bond order
BranchTableV1(P) == IF FLt(P, Zero) THEN BETA_V1_ANTI ELSE BETA_V1_BOND

\* the table Model 2 selects for a pair: antibonding when P < 0 and N > 2
BranchTableV2(P) == IF FLt(P, Zero) /\ NAtoms > 2 THEN BETA_ANTI ELSE BETA_BOND

Undefined(T, p) == T[atom_indices[p[1]] + 1][atom_indices[p[2]] + 1] = nan

AnharmUndefined(p) == Undefined(PRE_EXP, p) \/ Undefined(ZETA, p) \/ Undefined(R_PARAM, p)

\* the short-range term of a pair all of whose three parameters are defined
AnharmTerm(p) ==
  FMul(Int2Num(PRE_EXP[atom_indices[p[1]] + 1][atom_indices[p[2]] + 1]),
       exp(FMul(Int2Num(-ZETA[atom_indices[p[1]] + 1][atom_indices[p[2]] + 1]),
                FSub(distance_matrix[p[1]][p[2]],
                     Int2Num(R_PARAM[atom_indices[p[1]] + 1][atom_indices[p[2]] + 1])))))

\* the harmonic term of a pair over a defined entry of the table T
HarmTerm(T, p) ==
  FMul(Int2Num(2 * T[atom_indices[p[1]] + 1][atom_indices[p[2]] + 1]),
       FAbs(bond_orders[p[1]][p[2]]))

\* C3: a pair whose element pair is undefined in the branch-selected
\* coefficient table contributes exactly 0, never NaN and never an error: in
\* Model 1 its two_body entry is 0; in Model 2 a pair with an undefined
\* short-range parameter has a zero short-range term (its entry is the
\* harmonic term alone) and a pair undefined in the branch-selected beta table
\* has a zero harmonic term (its entry is 0: no shipped pair has short-range
\* parameters without having both betas).
C3_UndefinedContributesZero ==
  HasResult =>
    \A p \in Pairs :
      LET e == result[1].two_body[p[1]][p[2]]
          P == bond_orders[p[1]][p[2]]
      IN  /\ ~IsNaN(e)
          /\ (model = "zpebop1" /\ Undefined(BranchTableV1(P), p)) => e = Zero
          /\ (model = "zpebop2" /\ Undefined(BranchTableV2(P), p) /\ AnharmUndefined(p))
               => e = Zero
          /\ (model = "zpebop2" /\ ~Undefined(BranchTableV2(P), p) /\ AnharmUndefined(p))
               => e = HarmTerm(BranchTableV2(P), p)

C3_Witness ==
  /\ HasResult /\ model = "zpebop2" /\ NAtoms = 3
  /\ \E p \in Pairs :
       /\ FLt(bond_orders[p[1]][p[2]], Zero)
       /\ Undefined(BETA_ANTI, p)
       /\ result[1].two_body[p[1]][p[2]] = Zero
  /\ \E p \in Pairs : ~Undefined(BranchTableV2(bond_orders[p[1]][p[2]]), p)

\* C4: in a 2-atom system a negative bond order takes the bonding table in
\* Model 2: the harmonic part of the pair's entry is 2 * BETA_BOND * |P| (0 if
\* BETA_BOND is undefined), never 2 * BETA_ANTI * |P|.
C4_DiatomicUsesBondingTable ==
  (HasResult /\ model = "zpebop2" /\ NAtoms = 2 /\ FLt(bond_orders[2][1], Zero)) =>
    LET p == <<2, 1>>
        anh == IF AnharmUndefined(p) THEN Zero ELSE AnharmTerm(p)
        harm == IF Undefined(BETA_BOND, p) THEN Zero ELSE HarmTerm(BETA_BOND, p)
    IN  result[1].two_body[2][1] = FAdd(harm, anh)

C4_Witness ==
  /\ HasResult /\ model = "zpebop2" /\ NAtoms = 2 /\ FLt(bond_orders[2][1], Zero)
  /\ ~Undefined(BETA_BOND, <<2, 1>>) /\ ~Undefined(BETA_ANTI, <<2, 1>>)
  /\ BETA_BOND[atom_indices[2] + 1][atom_indices[1] + 1]
       # BETA_ANTI[atom_indices[2] + 1][atom_indices[1] + 1]

\* C5: compute_zpe_isotope with an empty isotopes mapping is the identity:
\* every factor is 1, the corrected matrices equal the normal ones and the
\* isotope total_zpe equals the total_zpe of compute_zpe.
C5_EmptyIsotopesIdentity ==
  (IsotopeReturned /\ ret.isotopes = NoIsotopes) =>
    /\ \A i \in 1..NAtoms : \A j \in 1..NAtoms : ret.value[1].correction_factors[i][j] = One
    /\ ret.value[1].two_body = result[1].two_body
    /\ ret.value[1].three_body_decomp = result[1].three_body_decomp
    /\ ret.value[1].total_zpe = result[1].total_zpe

OutOfRange(isotopes) == \E a \in DOMAIN isotopes : a < 1 \/ a > NAtoms

\* C6: compute_zpe_isotope with an atom number outside 1..N fails with a
\* validation error before anything is computed: the step runs no engine and
\* leaves the cached result as it was.
C6_OutOfRangeRejectedEagerly ==
  [][(ret'.op = "compute_zpe_isotope" /\ OutOfRange(ret'.isotopes)) =>
       /\ ret'.error = "ValueError"
       /\ ret'.value = <<>>
       /\ result' = result
       /\ engine_runs' = engine_runs]_vars

C6_Witness ==
  /\ ret.op = "compute_zpe_isotope" /\ ret.error = "ValueError"
  /\ 0 \notin DOMAIN ret.isotopes /\ 1 \in DOMAIN ret.isotopes
  /\ result = <<>> /\ engine_runs = 0

\* C7: for a valid isotopes mapping the two_body and three_body_decomp entries
\* of every pair i > j are the normal entries times one and the same factor
\* c[i, j], and the isotope total_zpe is the sum of the entries of the two
\* corrected matrices.
C7_SameFactorOnBothMatrices ==
  IsotopeReturned =>
    LET v == ret.value[1]
    IN  /\ \A p \in Pairs :
             /\ v.two_body[p[1]][p[2]] =
                  FMul(result[1].two_body[p[1]][p[2]], v.correction_factors[p[1]][p[2]])
             /\ v.three_body_decomp[p[1]][p[2]] =
                  FMul(result[1].three_body_decomp[p[1]][p[2]],
                       v.correction_factors[p[1]][p[2]])
        /\ OffLowerZero(v.two_body) /\ OffLowerZero(v.three_body_decomp)
        /\ v.total_zpe = FAdd(SumOver(v.two_body, Pairs), SumOver(v.three_body_decomp, Pairs))

C7_Witness ==
  /\ IsotopeReturned
  /\ \E p \in Pairs :
       /\ ret.value[1].correction_factors[p[1]][p[2]] \notin {One, NaN}
       /\ IsFinite(result[1].three_body_decomp[p[1]][p[2]])
       /\ Sgn(result[1].three_body_decomp[p[1]][p[2]]) # 0
       /\ Sgn(result[1].two_body[p[1]][p[2]]) # 0

\* C10: for Model 1 every entry of two_body is non-negative.
C10_Model1NonNegative ==
  (HasResult /\ model = "zpebop1") =>
    \A i \in 1..NAtoms : \A j \in 1..NAtoms : FGe(result[1].two_body[i][j], Zero)

HasMarker(kind) == \E p \in 1..Len(data) : data[p].kind = kind

\* the lines of the atom listing: from under the charge line up to the first
\* blank or Variables line further down
ChargeLine == CHOOSE p \in 1..Len(data) : data[p].kind = "charge" /\ \A q \in 1..(p - 1) : data[q].kind # "charge"

ListingLines ==
  {p \in (ChargeLine + 1)..Len(data) :
     \A q \in (ChargeLine + 2)..p : data[q].kind \notin {"blank", "variables"}}

NoAtomListed ==
  HasMarker("charge") /\ \A p \in ListingLines : ~(data[p].kind = "atom" /\ data[p].sym \in 0..17)

Parsed == parsed # <<>>

C9_RecordShapesAgree ==
  (Parsed /\ parsed[1].record # <<>>) =>
    LET r == parsed[1].record[1]
    IN  /\ Len(r.coordinates) = Len(r.atoms)
        /\ Len(r.distance_matrix) = Len(r.atoms)
        /\ Len(r.mulliken_bond_orders) = Len(r.atoms)

\* the triplets <<i, j, k>>, i > j > k (0-based), of the molecule
TripletSet == {Triplets(NAtoms)[x] : x \in 1..Len(Triplets(NAtoms))}

\* a triplet the three-body pass of Model 2 does not skip
Qualifying(t) == qualifies(atom_indices, bond_orders, t)

\* the pairs of a triplet, as 1-based positions of the matrices
PairsOf(t) == {<<t[1] + 1, t[2] + 1>>, <<t[1] + 1, t[3] + 1>>, <<t[2] + 1, t[3] + 1>>}

\* the sum of the three two-body energies of a triplet in the result
TwoBodySum(t) ==
  FAdd(FAdd(result[1].two_body[t[1] + 1][t[2] + 1], result[1].two_body[t[1] + 1][t[3] + 1]),
       result[1].two_body[t[2] + 1][t[3] + 1])

\* C11: in Model 2, when the three two-body energies of a qualifying triplet
\* sum to zero, no NaN or infinite value is stored in three_body_decomp.
C11_DegenerateTripletGuarded ==
  (HasResult /\ model = "zpebop2") =>
    \A t \in TripletSet :
      (Qualifying(t) /\ TwoBodySum(t) = Zero) =>
        \A p \in PairsOf(t) : IsFinite(result[1].three_body_decomp[p[1]][p[2]])

\* T[a][b] and T[b][a] are both undefined or hold the same float64, and the
\* lookup of the engines reads the same value in either order
TablesSymmetric ==
  \A name \in DOMAIN ShippedTables : \A a \in Elements : \A b \in Elements :
    /\ TableRanks[name][a + 1][b + 1] = TableRanks[name][b + 1][a + 1]
    /\ (TableRanks[name][a + 1][b + 1] = 0) = (ShippedTables[name][a + 1][b + 1] = nan)
    /\ Lookup(ShippedTables[name], a, b) = Lookup(ShippedTables[name], b, a)

\* C12: every coefficient table is symmetric (T[a][b] and T[b][a] both
\* undefined or equal), so the single-order lookup of the engines gives the
\* same value as the reversed one: a diatomic with its two atoms exchanged
\* has the same result.
C12_TablesSymmetricLookup ==
  /\ TablesSymmetric
  /\ (HasResult /\ NAtoms = 2) =>
       result[1] = run_engine(model, <<atom_indices[2], atom_indices[1]>>,
                              bond_orders, distance_matrix)

C12_Witness ==
  /\ HasResult /\ NAtoms = 2 /\ model = "zpebop2"
  /\ atom_indices[1] < atom_indices[2]
  /\ ~Undefined(BETA_BOND, <<2, 1>>) /\ ~AnharmUndefined(<<2, 1>>)
  /\ Sgn(result[1].two_body[2][1]) # 0

\* C13: the parameter tables are read-only: no operation of the parser, of
\* either energy engine, of the isotope correction or of result assembly
\* changes an entry of a table, and an assignment to an entry is refused; the
\* tables stay as they were shipped at every step.
C13_TablesUnchanged == [][tables' = tables /\ tables' = ShippedTables]_vars

C13_Witness ==
  /\ ret.op = "setitem" /\ ret.error = "ValueError"
  /\ HasResult /\ engine_runs = 1
  /\ parsed # <<>> /\ parsed[1].error = ""
  /\ tables = ShippedTables

DistanceReturned == ret.op = "compute_distance_matrix"

\* the squared Euclidean distance of the rows i and j of the coordinates c
SquaredDistance(c, i, j) ==
  FAdd(FAdd(FMul(FSub(c[i][1], c[j][1]), FSub(c[i][1], c[j][1])),
            FMul(FSub(c[i][2], c[j][2]), FSub(c[i][2], c[j][2]))),
       FMul(FSub(c[i][3], c[j][3]), FSub(c[i][3], c[j][3])))

\* d is the non-negative root of s, to the resolution 1/SqrtScale of roots
IsRootOf(d, s) ==
  /\ IsFinite(d) /\ Sgn(d) >= 0
  /\ FGe(s, FMul(d, d))
  /\ FLt(s, FMul(FAdd(d, Rat(1, SqrtScale)), FAdd(d, Rat(1, SqrtScale))))

\* C14: compute_distance_matrix returns an N x N matrix whose entry [i, j],
\* i > j, is the Euclidean distance of the coordinate rows i and j (hence
\* not negative), and whose diagonal and upper triangle are 0.
C14_DistanceMatrixLowerTriangle ==
  DistanceReturned =>
    LET c == ret.value[1].coordinates
        d == ret.value[1].distance_matrix
        n == Len(c)
    IN  /\ Len(d) = n
        /\ \A i \in 1..n :
             /\ Len(d[i]) = n
             /\ \A j \in 1..n :
                  IF i > j THEN IsRootOf(d[i][j], SquaredDistance(c, i, j))
                  ELSE d[i][j] = Zero

C14_Witness ==
  /\ DistanceReturned
  /\ Len(ret.value[1].coordinates) = 3
  /\ ret.value[1].distance_matrix[2][1] = One
  /\ ret.value[1].distance_matrix[3][1] = Int2Num(5)
  /\ FLt(Int2Num(4), ret.value[1].distance_matrix[3][2])
  /\ FLt(ret.value[1].distance_matrix[3][2], Int2Num(5))

BondEnergiesReturned == ret.op = "compute_bond_energies"

\* C15: compute_bond_energies returns gross = two_body and net = two_body +
\* three_body_decomp, and a composite matrix with gross above the diagonal
\* (composite[j, i] = gross[i, j]), net below it (composite[i, j] =
\* net[i, j]) and a zero diagonal; for Model 1 gross and net are identical.
C15_BondEnergyTables ==
  BondEnergiesReturned =>
    LET tabs == ret.value[1]
        r == result[1]
    IN  /\ HasResult
        /\ tabs.gross = r.two_body
        /\ Len(tabs.net) = NAtoms /\ Len(tabs.composite) = NAtoms
        /\ \A i \in 1..NAtoms :
             /\ Len(tabs.net[i]) = NAtoms /\ Len(tabs.composite[i]) = NAtoms
             /\ tabs.composite[i][i] = Zero
             /\ \A j \in 1..NAtoms :
                  /\ tabs.net[i][j] = FAdd(r.two_body[i][j], r.three_body_decomp[i][j])
                  /\ i > j => /\ tabs.composite[j][i] = tabs.gross[i][j]
                              /\ tabs.composite[i][j] = tabs.net[i][j]
        /\ model = "zpebop1" => tabs.gross = tabs.net

C15_Witness ==
  /\ BondEnergiesReturned /\ model = "zpebop2" /\ NAtoms = 3
  /\ \A p \in Pairs :
       /\ IsFinite(ret.value[1].net[p[1]][p[2]])
       /\ Sgn(result[1].three_body_decomp[p[1]][p[2]]) # 0
       /\ ret.value[1].composite[p[1]][p[2]] # ret.value[1].composite[p[2]][p[1]]

SortReturned == ret.op = "sort_bond_energies"

\* the pairs of the matrix m that are not below the threshold t
Selected(m, t) == {p \in Pairs : FGe(m[p[1]][p[2]], t)}

\* base is what was taken off every returned energy: nothing, or with
\* relative the smallest of the selected energies of m
IsBase(base, m, t, relative) ==
  IF relative /\ Selected(m, t) # {}
  THEN /\ \E p \in Selected(m, t) : base = m[p[1]][p[2]]
       /\ \A p \in Selected(m, t) : FGe(m[p[1]][p[2]], base)
  ELSE base = Zero

\* the pairs a label may name: the one it numbers, or without numbers every
\* pair of its two elements
NamedPairs(lab) ==
  IF Len(lab) = 6 THEN {p \in Pairs : p[1] = lab[5] /\ p[2] = lab[2]}
  ELSE {p \in Pairs : atom_indices[p[1]] = lab[2] /\ atom_indices[p[2]] = lab[1]}

\* C16: sort_bond_energies returns the lower-triangle pair energies that are
\* not below the threshold, in non-decreasing order, labels[k] naming the
\* pair whose energy is energies[k]; with relative the smallest returned
\* energy is taken off every energy, so energies[0] is 0; an empty selection
\* gives empty arrays and no error.
C16_SortedBondEnergies ==
  SortReturned =>
    LET v == ret.value[1]
        m == v.bond_energy_matrix
        chosen == Selected(m, v.threshold)
    IN  /\ ret.error = ""
        /\ Len(v.energies) = Cardinality(chosen)
        /\ Len(v.labels) = Len(v.energies)
        /\ \A k \in 1..(Len(v.energies) - 1) : FGe(v.energies[k + 1], v.energies[k])
        /\ \E p \in chosen \cup {<<0, 0>>} :
             LET base == IF p = <<0, 0>> THEN Zero ELSE m[p[1]][p[2]]
             IN  /\ IsBase(base, m, v.threshold, v.relative)
                 /\ \A k \in 1..Len(v.energies) :
                      \E q \in NamedPairs(v.labels[k]) \cap chosen :
                        v.energies[k] = FSub(m[q[1]][q[2]], base)
        /\ v.include_atom_numbers =>
             \A k \in 1..Len(v.labels) : \A k2 \in 1..Len(v.labels) :
               v.labels[k] = v.labels[k2] => k = k2
        /\ (v.relative /\ Len(v.energies) > 0) => v.energies[1] = Zero
        /\ chosen = {} => v.labels = <<>> /\ v.energies = <<>>

\* the entry of the table T for the elements of the pair p
Coefficient(T, p) == T[atom_indices[p[1]] + 1][atom_indices[p[2]] + 1]

\* C17: in Model 1 a pair i > j whose coefficient is defined has
\* two_body[i, j] = 2 * beta_bond * P when P >= 0 and 2 * (-beta_anti) * P
\* when P < 0; the branch follows the sign of P alone (P = 0 is bonding),
\* whatever the number of atoms.
C17_Model1PairFormula ==
  (HasResult /\ model = "zpebop1") =>
    \A p \in Pairs :
      LET P == bond_orders[p[1]][p[2]]
          e == result[1].two_body[p[1]][p[2]]
      IN  /\ (FGe(P, Zero) /\ ~Undefined(BETA_V1_BOND, p)) =>
               e = FMul(FMul(Int2Num(2), Int2Num(Coefficient(BETA_V1_BOND, p))), P)
          /\ (FLt(P, Zero) /\ ~Undefined(BETA_V1_ANTI, p)) =>
               e = FMul(FMul(Int2Num(2), Int2Num(-Coefficient(BETA_V1_ANTI, p))), P)

C17_Witness ==
  /\ HasResult /\ model = "zpebop1" /\ NAtoms = 3
  /\ \E p \in Pairs :
       /\ FLt(bond_orders[p[1]][p[2]], Zero) /\ ~Undefined(BETA_V1_ANTI, p)
       /\ Coefficient(BETA_V1_ANTI, p) # Coefficient(BETA_V1_BOND, p)
       /\ Sgn(result[1].two_body[p[1]][p[2]]) > 0
  /\ \E p \in Pairs :
       /\ FLt(Zero, bond_orders[p[1]][p[2]]) /\ ~Undefined(BETA_V1_BOND, p)
       /\ Sgn(result[1].two_body[p[1]][p[2]]) > 0
  /\ \E p \in Pairs :
       /\ bond_orders[p[1]][p[2]] = Zero /\ ~Undefined(BETA_V1_BOND, p)
       /\ result[1].two_body[p[1]][p[2]] = Zero

\* C18: in Model 2 every pair i > j has two_body[i, j] = E_h + E_a, where
\* E_h = 2 * beta * |P| with beta from the antibonding table exactly when
\* P < 0 and N > 2 (0 when that beta is undefined), and E_a is the
\* short-range term when the pre-exponential, the decay and the reference
\* distance are all defined for the element pair, and 0 when one is not.
C18_Model2TwoBodyTerms ==
  (HasResult /\ model = "zpebop2") =>
    \A p \in Pairs :
      LET P == bond_orders[p[1]][p[2]]
          T == IF FLt(P, Zero) /\ NAtoms > 2 THEN BETA_ANTI ELSE BETA_BOND
          E_h == IF Coefficient(T, p) = nan THEN Zero
                 ELSE FMul(FMul(Int2Num(2), Int2Num(Coefficient(T, p))), FAbs(P))
          E_a == IF nan \in {Coefficient(PRE_EXP, p), Coefficient(ZETA, p),
                             Coefficient(R_PARAM, p)}
                 THEN Zero
                 ELSE AnharmTerm(p)
      IN  result[1].two_body[p[1]][p[2]] = FAdd(E_h, E_a)

C18_Witness ==
  /\ HasResult /\ model = "zpebop2" /\ NAtoms = 3
  /\ \E p \in Pairs :
       /\ FLt(bond_orders[p[1]][p[2]], Zero)
       /\ Coefficient(BETA_ANTI, p) \notin {nan, Coefficient(BETA_BOND, p)}
       /\ ~AnharmUndefined(p) /\ Sgn(AnharmTerm(p)) # 0
  /\ \E p \in Pairs :
       /\ AnharmUndefined(p) /\ Coefficient(BETA_BOND, p) # nan
       /\ FLt(Zero, bond_orders[p[1]][p[2]])
       /\ Sgn(result[1].two_body[p[1]][p[2]]) > 0

\* the triplet t has a pair without a coupling coefficient in the table its
\* bond order selects
LacksKappa(t) ==
  \E p \in PairsOf(t) :
    Coefficient(IF FLt(bond_orders[p[1]][p[2]], Zero) /\ NAtoms > 2
                THEN KAPPA_ANTI ELSE KAPPA_BOND, p) = nan

\* the three-body energies of the triplets ts that have all their coupling
\* coefficients, added up in the order of ts
RECURSIVE TotalOfTriplets(_)
TotalOfTriplets(ts) ==
  IF ts = <<>> THEN Zero
  ELSE FAdd(TotalOfTriplets(SubSeq(ts, 1, Len(ts) - 1)),
            IF LacksKappa(ts[Len(ts)]) THEN Zero
            ELSE three_body_value(atom_indices, bond_orders, distance_matrix, ts[Len(ts)]))

\* C19: a triplet with a pair that lacks the branch-selected coupling
\* coefficient is skipped entirely: it adds nothing to the three-body total
\* (total_zpe is the two-body sum plus the energies of the other triplets)
\* and it changes no entry of three_body_decomp (a pair all of whose
\* triplets are skipped keeps 0).
C19_TripletWithoutKappaSkipped ==
  (HasResult /\ model = "zpebop2") =>
    /\ result[1].total_zpe =
         FAdd(SumOver(result[1].two_body, Pairs), TotalOfTriplets(Triplets(NAtoms)))
    /\ \A p \in Pairs :
         (\A t \in TripletSet : p \in PairsOf(t) => LacksKappa(t)) =>
           result[1].three_body_decomp[p[1]][p[2]] = Zero

C19_Witness ==
  /\ HasResult /\ model = "zpebop2" /\ NAtoms = 3
  /\ LacksKappa(<<2, 1, 0>>)
  /\ \E p \in Pairs : ~Undefined(KAPPA_BOND, p)
  /\ \A p \in Pairs :
       /\ Sgn(bond_orders[p[1]][p[2]]) # 0
       /\ Sgn(distance_matrix[p[1]][p[2]]) > 0
       /\ result[1].three_body_decomp[p[1]][p[2]] = Zero
  /\ Sgn(result[1].total_zpe) > 0

\* the three-body energy of the triplet t
E3(t) == three_body_value(atom_indices, bond_orders, distance_matrix, t)

\* what a triplet of energy e and two-body sum s adds to a pair of two-body
\* energy tb
Share(e, tb, s) == FMul(e, FDiv(tb, s))

\* the shares the qualifying ones of the first k triplets of ts add to the
\* pair p, in turn; q, e and s give, by position in ts, whether the triplet
\* qualifies, its energy and its two-body sum
RECURSIVE DecompOf(_, _, _, _, _, _)
DecompOf(ts, q, e, s, p, k) ==
  IF k = 0 THEN Zero
  ELSE FAdd(DecompOf(ts, q, e, s, p, k - 1),
            IF q[k] /\ p \in PairsOf(ts[k])
            THEN Share(e[k], result[1].two_body[p[1]][p[2]], s[k]) ELSE Zero)

\* C20: a qualifying triplet with three-body energy E3 and a non-zero
\* two-body sum S adds E3 * two_body[p] / S to three_body_decomp[p] for each
\* of its three pairs p; the three additions sum to E3, and no other entry of
\* three_body_decomp changes: an entry is the sum of the shares of the
\* qualifying triplets of its pair, and is 0 on and above the diagonal.
C20_ProportionalDecomposition ==
  (HasResult /\ model = "zpebop2") =>
    LET ts == Triplets(NAtoms)
        q == [x \in DOMAIN ts |-> Qualifying(ts[x])]
        e == [x \in DOMAIN ts |-> IF q[x] THEN E3(ts[x]) ELSE Zero]
        s == [x \in DOMAIN ts |-> TwoBodySum(ts[x])]
        two_body == result[1].two_body
    IN  /\ \A p \in Pairs :
             (\A x \in DOMAIN ts : (q[x] /\ p \in PairsOf(ts[x])) => s[x] # Zero) =>
               result[1].three_body_decomp[p[1]][p[2]] = DecompOf(ts, q, e, s, p, Len(ts))
        /\ \A x \in DOMAIN ts :
             (q[x] /\ s[x] # Zero) =>
               FAdd(FAdd(Share(e[x], two_body[ts[x][1] + 1][ts[x][2] + 1], s[x]),
                         Share(e[x], two_body[ts[x][1] + 1][ts[x][3] + 1], s[x])),
                    Share(e[x], two_body[ts[x][2] + 1][ts[x][3] + 1], s[x])) = e[x]
        /\ OffLowerZero(result[1].three_body_decomp)

C20_Witness ==
  /\ HasResult /\ model = "zpebop2" /\ NAtoms = 3
  /\ Qualifying(<<2, 1, 0>>)
  /\ Sgn(TwoBodySum(<<2, 1, 0>>)) # 0
  /\ IsFinite(E3(<<2, 1, 0>>)) /\ Sgn(E3(<<2, 1, 0>>)) # 0
  /\ result[1].three_body_decomp[2][1] # result[1].three_body_decomp[3][1]
  /\ \A p \in Pairs :
       /\ Sgn(distance_matrix[p[1]][p[2]]) > 0
       /\ Sgn(result[1].three_body_decomp[p[1]][p[2]]) # 0

\* the three-body pass is under way or over
InThreeBody == ret.op = "three_body"

\* C21: the three-body decomposition does not depend on the order of the
\* triplets: each allocation reads only the finished two_body matrix, so
\* whatever order the qualifying triplets are processed in, the resulting
\* three_body_decomp and total are those of the order of the source.
C21_OrderIndependent ==
  (HasResult /\ InThreeBody) =>
    result[1] = compute_zpe_v2(atom_indices, bond_orders, distance_matrix)

C21_Witness ==
  /\ InThreeBody
  /\ ret.value[1].pending = {<<2, 1, 0>>}
  /\ \A t \in TripletSet : Qualifying(t)
  /\ \A p \in Pairs : IsFinite(ret.value[1].decomp[p[1]][p[2]])
  /\ \E p \in Pairs : \E q \in Pairs :
       ret.value[1].decomp[p[1]][p[2]] # ret.value[1].decomp[q[1]][q[2]]
  /\ Sgn(ret.value[1].total) # 0

\* the three distances of a triplet, R_ij, R_ik, R_jk
DistancesOf(t) ==
  <<distance_matrix[t[1] + 1][t[2] + 1], distance_matrix[t[1] + 1][t[3] + 1],
    distance_matrix[t[2] + 1][t[3] + 1]>>

\* three points at these distances exist: none is negative and each is at
\* most the sum of the other two
Realisable(t) ==
  LET R == DistancesOf(t)
  IN  /\ \A x \in 1..3 : IsFinite(R[x]) /\ Sgn(R[x]) >= 0
      /\ FGe(FAdd(R[1], R[2]), R[3])
      /\ FGe(FAdd(R[1], R[3]), R[2])
      /\ FGe(FAdd(R[2], R[3]), R[1])

\* the cosines cos_ij, cos_ik, cos_jk that enter the three-body energy
CosinesOf(t) ==
  LET R == DistancesOf(t)
  IN  {cosine(R[2], R[3], R[1]), cosine(R[1], R[3], R[2]), cosine(R[1], R[2], R[3])}

\* C22: for every qualifying triplet at distances the geometry can have
\* (none negative, coincident atoms included) each of the three cosines that
\* enter E3 lies in the closed range [-1, 1].
C22_CosinesInRange ==
  (HasResult /\ model = "zpebop2") =>
    \A t \in TripletSet :
      (Qualifying(t) /\ Realisable(t)) =>
        \A c \in CosinesOf(t) : FGe(c, Neg(One)) /\ FGe(One, c)

\* the line of the last standard-orientation marker of the document
LastOrient ==
  CHOOSE p \in 1..Len(data) :
    data[p].kind = "orient" /\ \A q \in (p + 1)..Len(data) : data[q].kind # "orient"

\* the lines of the table under a marker at line p: after its four lines of
\* header, down to the rule that closes the table
TableLines(p) ==
  {r \in (p + 5)..Len(data) : \A q \in (p + 5)..r : data[q].kind # "dashes"}

\* a line is a coordinate row with numbers for x, y and z
IsCoordRow(line) ==
  line.kind = "coord" /\ Len(line.toks) >= 3 /\ \A k \in 1..3 : line.toks[k] # BadToken

\* the x, y, z of the coordinate rows among the lines of ps, top to bottom
RECURSIVE RowsOf(_)
RowsOf(ps) ==
  IF ps = {} THEN <<>>
  ELSE LET p == CHOOSE x \in ps : \A y \in ps : x <= y
           rest == RowsOf(ps \ {p})
       IN  IF IsCoordRow(data[p])
           THEN <<[k \in 1..3 |-> Int2Num(data[p].toks[k])]>> \o rest
           ELSE rest

\* the first count rows
FirstRows(rows, count) == SubSeq(rows, 1, IF Len(rows) < count THEN Len(rows) ELSE count)

\* C23: the coordinates of a returned record are the rows of the geometry
\* block under the last standard-orientation marker of the document, one per
\* atom, and the distance matrix is computed from them; no earlier block has
\* any influence.
C23_LastGeometryBlock ==
  (Parsed /\ parsed[1].record # <<>>) =>
    LET r == parsed[1].record[1]
    IN  /\ r.coordinates = FirstRows(RowsOf(TableLines(LastOrient)), Len(r.atoms))
        /\ r.distance_matrix = compute_distance_matrix(r.coordinates)

C23_Witness ==
  /\ Parsed
  /\ parsed[1].record # <<>>
  /\ \E p \in 1..Len(data) : data[p].kind = "orient" /\ p < LastOrient
                             /\ RowsOf(TableLines(p)) # RowsOf(TableLines(LastOrient))
                             /\ Len(RowsOf(TableLines(p))) = MaxAtoms
  /\ Len(parsed[1].record[1].coordinates) = MaxAtoms
  /\ Len(parsed[1].record[1].atoms) = MaxAtoms

\* the scan of the bond-order section has returned its matrix
MatrixReturned == ret.op = "parse_mulliken_matrix"

\* the places of the document where a value is printed for row r under column
\* number c: in the r-th line under a header that shows c, at the place k
\* which c has in that header
PrintedAt(r, c) ==
  {at \in (1..Len(data)) \X (1..MatrixAtoms) :
     /\ at[1] > r
     /\ data[at[1] - r].kind = "colnums"
     /\ data[at[1]].kind = "mrow"
     /\ at[2] <= Len(data[at[1] - r].toks)
     /\ at[2] <= Len(data[at[1]].toks)
     /\ data[at[1] - r].toks[at[2]] = c}

\* C24: for a matrix printed in consecutive blocks of columns, whatever the
\* number of atoms and the width of a block, entry (r, c) of the parsed
\* matrix is the value printed for row r + 1 under column number c + 1.
C24_BlocksAssembled ==
  MatrixReturned =>
    \A r \in 1..NAtoms : \A c \in 1..NAtoms :
      /\ PrintedAt(r, c) # {}
      /\ \A at \in PrintedAt(r, c) : ret.value[1][r][c] = Int2Num(data[at[1]].toks[at[2]])

\* the lines under the charge line and above the first blank or Variables
\* line that follows the charge line
BeforeSentinel ==
  {p \in (ChargeLine + 1)..Len(data) :
     \A q \in (ChargeLine + 1)..p : data[q].kind \notin {"blank", "variables"}}

\* the supported element symbols at the head of the lines of ps, top to bottom
RECURSIVE SymbolsOf(_)
SymbolsOf(ps) ==
  IF ps = {} THEN <<>>
  ELSE LET p == CHOOSE x \in ps : \A y \in ps : x <= y
           rest == SymbolsOf(ps \ {p})
       IN  IF data[p].kind = "atom" /\ data[p].sym \in 0..17
           THEN <<data[p].sym>> \o rest
           ELSE rest

\* C25: the atoms of a returned record are, in order, the supported element
\* symbols at the head of the lines between the charge line and the first
\* blank or Variables line; other lines are skipped without error and no line
\* at or after that sentinel contributes an atom.
C25_AtomListing ==
  (Parsed /\ parsed[1].record # <<>>) =>
    parsed[1].record[1].atoms = SymbolsOf(BeforeSentinel)

\* C26: the data of the molecule are read-only input: compute_zpe (with the
\* engine it runs), compute_bond_energies, compute_zpe_isotope and
\* compute_bond_energies_isotope leave atom_indices (the atoms), the bond
\* orders and the distance matrix as they were, and the isotopes mapping an
\* isotope call hands back is the mapping that was passed in.
C26_InputsUnchanged ==
  [][/\ atom_indices' = atom_indices
     /\ bond_orders' = bond_orders
     /\ distance_matrix' = distance_matrix
     /\ (ret'.op \in {"compute_zpe_isotope", "compute_bond_energies_isotope"}
           /\ ret'.error = "") => ret'.value[1].isotopes = ret'.isotopes]_vars

C26_Witness ==
  /\ ret.op = "compute_bond_energies_isotope"
  /\ ret.error = ""
  /\ ret.isotopes # NoIsotopes
  /\ engine_runs = 1
  /\ model = "zpebop2"
  /\ NAtoms = MaxAtoms
  /\ \E p \in Pairs : Sgn(bond_orders[p[1]][p[2]]) < 0

\* the normal fields of an IsotopeZPEResult are those of the ZPEResult r
NormalFieldsAre(iso, r) ==
  /\ iso.total_zpe_normal = r.total_zpe
  /\ iso.two_body_normal = r.two_body
  /\ iso.three_body_decomp_normal = r.three_body_decomp

\* C27: over any sequence of compute_zpe, compute_bond_energies,
\* compute_zpe_isotope (accepted or rejected) and
\* compute_bond_energies_isotope calls on one calculator the engine runs at
\* most once, the cached result is never replaced or altered once it is
\* there, compute_zpe returns it, and the normal fields of every
\* IsotopeZPEResult (and the normal bond energies) are those of the cache.
C27_CacheKept ==
  [][/\ engine_runs' <= 1
     /\ (result # <<>> => result' = result)
     /\ (result' # <<>> <=> engine_runs' = 1)
     /\ (ret'.op = "compute_zpe" => ret'.value = result')
     /\ (ret'.op = "compute_zpe_isotope" /\ ret'.error = "")
          => NormalFieldsAre(ret'.value[1], result'[1])
     /\ (ret'.op = "compute_bond_energies_isotope" /\ ret'.error = "")
          => ret'.value[1].normal = bond_energies(result'[1])
     /\ (ret'.op = "compute_bond_energies") => ret'.value[1] = bond_energies(result'[1])]_vars

C27_Witness ==
  /\ ret.op = "compute_zpe_isotope"
  /\ ret.error = ""
  /\ result # <<>>
  /\ engine_runs = 1
  /\ NormalFieldsAre(ret.value[1], result[1])
  /\ ret.value[1].two_body # ret.value[1].two_body_normal
  /\ ret.value[1].total_zpe # result[1].total_zpe

\* neither atom of the pair of positions i, j is a key of the mapping
Unsubstituted(i, j) == i \notin DOMAIN ret.isotopes /\ j \notin DOMAIN ret.isotopes

\* C28: in a compute_zpe_isotope with positive masses the correction factor of
\* every pair below the diagonal with neither atom number a key of the mapping
\* is exactly 1, as is every factor on and above the diagonal, and the
\* two_body and three_body_decomp entries at those places are the normal ones.
C28_UnsubstitutedPairsKept ==
  (ret.op = "compute_zpe_isotope" /\ ret.error = "") =>
    \A i \in 1..NAtoms : \A j \in 1..NAtoms :
      (i <= j \/ Unsubstituted(i, j)) =>
        /\ ret.value[1].correction_factors[i][j] = One
        /\ ret.value[1].two_body[i][j] = ret.value[1].two_body_normal[i][j]
        /\ ret.value[1].three_body_decomp[i][j] = ret.value[1].three_body_decomp_normal[i][j]

C28_Witness ==
  /\ ret.op = "compute_zpe_isotope"
  /\ ret.error = ""
  /\ model = "zpebop2"
  /\ DOMAIN ret.isotopes = {1}
  /\ NAtoms = MaxAtoms
  /\ \E i \in 1..NAtoms : \E j \in 1..NAtoms :
       /\ i > j
       /\ Unsubstituted(i, j)
       /\ Sgn(ret.value[1].two_body[i][j]) # 0
       /\ Sgn(ret.value[1].three_body_decomp[i][j]) # 0
  /\ ret.value[1].correction_factors[2][1] # One
  /\ ret.value[1].two_body[2][1] # ret.value[1].two_body_normal[2][1]

\* the elements B, C, N, O by index
BCNO == {4, 5, 6, 7}

\* the mask and both kappa tables are defined for exactly the pairs of B, C,
\* N, O, which are the bonds of the legacy engine
KappaDomain ==
  \A a \in Elements : \A b \in Elements :
    /\ HAS_KAPPA(a, b) <=> (a \in BCNO /\ b \in BCNO)
    /\ HAS_KAPPA(a, b) <=> <<a, b>> \in legacy_bonds
    /\ ~IsNaN(Lookup(KAPPA_BOND, a, b)) <=> (a \in BCNO /\ b \in BCNO)
    /\ ~IsNaN(Lookup(KAPPA_ANTI, a, b)) <=> (a \in BCNO /\ b \in BCNO)

\* a pair that passes the mask has its coefficient defined in the branch its
\* bond order selects, whatever the bond order
PairsNeverSkipped ==
  \A a \in Elements : \A b \in Elements : \A P \in BOVals :
    HAS_KAPPA(a, b) => ~IsNaN(kappa(a, b, P, MaxAtoms))

\* C29: HAS_KAPPA is true exactly for the pairs of elements of B, C, N, O,
\* which are the pairs the legacy engine accepts, and KAPPA_BOND and
\* KAPPA_ANTI are defined on exactly that set; so a triplet that passes the
\* mask is never skipped by the check of the selected coefficients, whichever
\* branch its pairs take, and both engines qualify the same triplets.
C29_MaskIsKappaDomain ==
  /\ KappaDomain
  /\ PairsNeverSkipped
  /\ \A t \in TripletSet :
       /\ all_have_kappa(atom_indices, t) => Qualifying(t)
       /\ Qualifying(t) <=> legacy_qualifies(atom_indices, t)

C29_Witness ==
  /\ InThreeBody
  /\ ret.value[1].pending = {}
  /\ \E t \in TripletSet :
       /\ Qualifying(t)
       /\ Sgn(bond_orders[t[1] + 1][t[2] + 1]) < 0
       /\ Sgn(bond_orders[t[1] + 1][t[3] + 1]) > 0
       /\ {atom_indices[t[1] + 1], atom_indices[t[2] + 1], atom_indices[t[3] + 1]} = {4, 6, 7}
       /\ Sgn(ret.value[1].total) # 0

\* the line of the end marker of the bond-order section, 0 when there is none
EndMarker ==
  IF \E p \in 1..Len(data) : data[p].kind = "spin"
  THEN CHOOSE p \in 1..Len(data) :
         data[p].kind = "spin" /\ \A q \in 1..(p - 1) : data[q].kind # "spin"
  ELSE 0

\* the state of the scan is within its bounds
ScanInBounds(v) ==
  /\ v.st.col_offset >= 0
  /\ v.st.col_offset % 6 = 0
  /\ v.st.row_in_block >= 0
  /\ v.st.row_in_block <= NAtoms
  /\ Len(v.st.matrix) = NAtoms
  /\ \A i \in 1..NAtoms : Len(v.st.matrix[i]) = NAtoms
  /\ v.pos <= v.end_pos
  /\ EndMarker # 0 => v.end_pos <= EndMarker

\* from the scan state v to the matrix after, an entry changes only where a
\* value of the line at v.pos is stored: in row row_in_block, at the column
\* the offset and the place of the value give, both inside the matrix
StoredWhereParsed(v, after) ==
  \A i \in 1..NAtoms : \A j \in 1..NAtoms :
    after[i][j] # v.st.matrix[i][j] =>
      /\ data[v.pos].kind = "mrow"
      /\ i - 1 = v.st.row_in_block
      /\ i - 1 < NAtoms
      /\ j - 1 < NAtoms
      /\ j - v.st.col_offset \in 1..Len(data[v.pos].toks)
      /\ after[i][j] = Int2Num(data[v.pos].toks[j - v.st.col_offset])

\* C30: while the bond-order section is scanned line by line, col_offset is a
\* non-negative multiple of 6, row_in_block lies in 0..N, a value is stored
\* only at a row and a column inside the matrix, every entry for which no
\* value was parsed stays 0, and no line at or after the end marker is read
\* when the marker is there.
C30_ScanInvariant ==
  [][/\ ret'.op = "scan" => ScanInBounds(ret'.value[1])
     /\ (ret.op = "none" /\ ret'.op = "scan") => ret'.value[1].st.matrix = zeros(NAtoms)
     /\ (ret.op = "scan" /\ ret'.op = "scan") =>
          /\ StoredWhereParsed(ret.value[1], ret'.value[1].st.matrix)
          /\ EndMarker # 0 => ret.value[1].pos < EndMarker
     /\ (ret.op = "scan" /\ ret'.op = "parse_mulliken_matrix") =>
          ret'.value[1] = ret.value[1].st.matrix]_vars

C30_Witness ==
  /\ ret.op = "scan"
  /\ EndMarker # 0
  /\ ret.value[1].pos = EndMarker
  /\ ret.value[1].st.col_offset = 6
  /\ ret.value[1].st.row_in_block = NAtoms
  /\ NAtoms = MatrixAtoms
  /\ Sgn(ret.value[1].st.matrix[NAtoms][NAtoms]) # 0
  /\ Sgn(ret.value[1].st.matrix[1][1]) # 0
====
